---- MODULE Spec2Model ----
(***************************************************************************)
(* A model of var-simulation: the metrics core (src/src/metrics.py), the   *)
(* SQLite store (src/src/database.py), the portfolio VaR endpoint          *)
(* (src/main.py), the indicators of fetch_stock_data (src/src/data.py),    *)
(* the terminal app (src/src/tui.py), the Portfolio VaR page               *)
(* (src/streamlit_app.py) and the single-asset form (src/frontend/app.py). *)
(*                                                                         *)
(* The metrics library is stateless: every function is a transform from    *)
(* its arguments to a returned value or a raised exception.  The state of  *)
(* the model is the call in progress (`call`), the position inside it      *)
(* (`pc`), the locals a multi-step function has built so far               *)
(* (`stock_returns`) and the outcome of the last completed call            *)
(* (`result`).  The store adds the contents of the connection's tables     *)
(* (`conn`).  The endpoint adds the dict of fetched Close series           *)
(* (`stock_data`) and the number of fetch_stock_data calls it has made     *)
(* (`fetched`).  `caller` holds the containers the caller of a metrics     *)
(* function handed in, as the call leaves them.  `app` is the terminal     *)
(* app: its input widgets, its table and the outcome of its last handler.  *)
(*                                                                         *)
(* Each subsystem has its own specification over the same variables:       *)
(* Spec (metrics), ValuationSpec (historic_pe_ratio), MetricsSpec (both),  *)
(* StockDataSpec and FinancialDataSpec (the store), EndpointSpec (the      *)
(* endpoint), IndicatorSpec (moving averages), TuiSpec (the terminal       *)
(* app), PageSpec (the Portfolio VaR page), FlaskSpec (the form).          *)
(*                                                                         *)
(* Numbers.  Python floats are modelled in exact or fixed-point integer    *)
(* arithmetic; the unit of every quantity is stated where it is computed.  *)
(* A float is a record [k, v]: k = "num" with the integer v, k = "nan",    *)
(* or k = "inf" with the sign v.  Confidence levels are integer            *)
(* percentages, so 0.95 is 95 and the open interval (0,1) is 1..99.        *)
(***************************************************************************)
EXTENDS Integers, Sequences, FiniteSets, TLC

VARIABLES pc, call, result, stock_returns, conn, stock_data, fetched, caller, app

vars == <<pc, call, result, stock_returns, conn, stock_data, fetched, caller, app>>

(***************************************************************************)
(* Bounds of the model.                                                    *)
(***************************************************************************)
MaxLen == 3
MaxRet == 2
MaxInvest == 2
MaxPrice == 3
MaxRows == 2
MaxEps == 1
MaxFin == 2
MaxFetch == 2

(***************************************************************************)
(* Floats.                                                                 *)
(***************************************************************************)
Num(x) == [k |-> "num", v |-> x]
NaN == [k |-> "nan", v |-> 0]
PInf == [k |-> "inf", v |-> 1]
NInf == [k |-> "inf", v |-> -1]

IsNum(f) == f.k = "num"
IsNaN(f) == f.k = "nan"
IsInf(f) == f.k = "inf"

Abs(x) == IF x < 0 THEN -x ELSE x
Sign(x) == IF x < 0 THEN -1 ELSE IF x > 0 THEN 1 ELSE 0

\* abs(x) of a float
FAbs(f) == IF IsNum(f) THEN Num(Abs(f.v)) ELSE IF IsInf(f) THEN PInf ELSE NaN

\* -x of a float
FNeg(f) == IF IsNaN(f) THEN NaN ELSE [k |-> f.k, v |-> -f.v]

\* x + y of two floats
FAdd(f, g) ==
    IF IsNaN(f) \/ IsNaN(g) THEN NaN
    ELSE IF IsInf(f) /\ IsInf(g) THEN (IF f.v = g.v THEN f ELSE NaN)
    ELSE IF IsInf(f) THEN f
    ELSE IF IsInf(g) THEN g
    ELSE Num(f.v + g.v)

\* x * y of two floats (the units multiply)
FMul(f, g) ==
    IF IsNaN(f) \/ IsNaN(g) THEN NaN
    ELSE IF IsInf(f) \/ IsInf(g)
         THEN (IF Sign(f.v) * Sign(g.v) = 0 THEN NaN
               ELSE IF Sign(f.v) * Sign(g.v) > 0 THEN PInf ELSE NInf)
    ELSE Num(f.v * g.v)

\* x >= 0 of a float: every comparison with NaN is false
FGe0(f) == IF IsNaN(f) THEN FALSE ELSE f.v >= 0

\* x <= y of two floats that are numbers; every comparison with NaN is false
FLe(f, g) == IsNum(f) /\ IsNum(g) /\ f.v <= g.v

(***************************************************************************)
(* Sequences of integers.                                                  *)
(***************************************************************************)
RECURSIVE Sum(_)
Sum(s) == IF s = <<>> THEN 0 ELSE Head(s) + Sum(Tail(s))

RECURSIVE SumSq(_)
SumSq(s) == IF s = <<>> THEN 0 ELSE Head(s) * Head(s) + SumSq(Tail(s))

RECURSIVE Insert(_, _)
Insert(x, s) ==
    IF s = <<>> THEN <<x>>
    ELSE IF x <= Head(s) THEN <<x>> \o s
    ELSE <<Head(s)>> \o Insert(x, Tail(s))

\* the sample in ascending order
RECURSIVE Sort(_)
Sort(s) == IF s = <<>> THEN <<>> ELSE Insert(Head(s), Sort(Tail(s)))

\* floor(sqrt(x)) for x >= 0, by bisection on lo..hi
RECURSIVE ISqrtIn(_, _, _)
ISqrtIn(x, lo, hi) ==
    IF lo >= hi THEN lo
    ELSE LET mid == (lo + hi + 1) \div 2
         IN  IF mid * mid <= x THEN ISqrtIn(x, mid, hi) ELSE ISqrtIn(x, lo, mid - 1)

ISqrt(x) == ISqrtIn(x, 0, 46340)

(***************************************************************************)
(* Results of a call.                                                      *)
(***************************************************************************)
NoResult == [kind |-> "none"]
Returned(x) == [kind |-> "value", val |-> x]
Raised(exc, msg) == [kind |-> "error", exc |-> exc, msg |-> msg]

IsValue(r) == r.kind = "value"
IsError(r) == r.kind = "error"

(***************************************************************************)
(* Containers.  A pandas Series or numpy array is [kind |-> "series",      *)
(* data |-> sequence]; a DataFrame is [kind |-> "frame", columns |->       *)
(* sequence of columns]; a plain number is [kind |-> "scalar", x |-> it].  *)
(* A Python list and a numpy array given as an argument are kept apart     *)
(* from a Series by their kind.                                            *)
(***************************************************************************)
Series(data) == [kind |-> "series", data |-> data]
List(data) == [kind |-> "list", data |-> data]
Array(data) == [kind |-> "array", data |-> data]
Frame(columns) == [kind |-> "frame", columns |-> columns]
Scalar(x) == [kind |-> "scalar", x |-> x]

(***************************************************************************)
(* numpy.percentile(a, q), the default "linear" method: the sample is      *)
(* sorted, the virtual index is (n - 1) * q / 100, and the result          *)
(* interpolates linearly between the two neighbouring order statistics.    *)
(* q is an integer percentage; the result is in hundredths of the          *)
(* sample's unit, which makes the interpolation exact.                     *)
(***************************************************************************)
Percent == 100

percentile(a, q) ==
    LET n == Len(a)
        s == Sort(a)
        virtual == (n - 1) * q
        previous == virtual \div Percent
        gamma == virtual % Percent
        lo == previous + 1
        hi == IF lo + 1 <= n THEN lo + 1 ELSE n
    IN  s[lo] * (Percent - gamma) + s[hi] * gamma

(***************************************************************************)
(* historical_var (metrics.py 117-146).                                    *)
(* returns: a non-empty sequence of integers; confidence_level: integer    *)
(* percentage; investment_value: integer.  The value returned is in        *)
(* hundredths of (investment unit * return unit).                          *)
(***************************************************************************)
ConfidenceOutOfRangeMut(confidence_level) ==
    ~ (0 <= confidence_level /\ confidence_level <= Percent)

\* `not 0 < confidence_level < 1`
ConfidenceOutOfRange(confidence_level) ==
    ~ (0 < confidence_level /\ confidence_level < Percent)

VarPercentileMut(confidence_level) == confidence_level

\* `var_percentile = 1 - confidence_level`, times 100
VarPercentile(confidence_level) == Percent - confidence_level

HistoricalQuantileMut(returns, confidence_level) ==
    LET n == Len(returns)
        s == Sort(returns)
        previous == ((n - 1) * VarPercentile(confidence_level)) \div Percent
    IN  s[previous + 1] * Percent

\* `var = np.percentile(returns, var_percentile * 100)`
HistoricalQuantile(returns, confidence_level) ==
    percentile(returns, VarPercentile(confidence_level))

HistoricalValueMut(var, investment_value) == Num(Abs(var))

\* `var_value = investment_value * abs(var)`
HistoricalValue(var, investment_value) == Num(investment_value * Abs(var))

historical_var(returns, confidence_level, investment_value) ==
    IF ConfidenceOutOfRange(confidence_level)
    THEN Raised("ValueError", "Confidence level must be between 0 and 1")
    ELSE Returned(HistoricalValue(HistoricalQuantile(returns, confidence_level),
                                  investment_value))

(***************************************************************************)
(* Series.mean() and Series.std() (ddof = 1) of a sequence of integers,    *)
(* in hundredths of the sample's unit, rounded down.  The standard         *)
(* deviation of fewer than two observations is NaN.                        *)
(***************************************************************************)
Hundredths(x) == x * 100

Mean(returns) == Num(Hundredths(Sum(returns)) \div Len(returns))

Std(returns) ==
    LET n == Len(returns)
        \* n * sum((x - mean)^2)
        ss == n * SumSq(returns) - Sum(returns) * Sum(returns)
    IN  IF n < 2 THEN NaN
        ELSE Num(ISqrt(Hundredths(Hundredths(ss)) \div (n * (n - 1))))

(***************************************************************************)
(* scipy.stats.norm.ppf(p): the standard normal quantile, p an integer     *)
(* percentage, the result in hundredths.  ppf(0) = -inf, ppf(1) = +inf,    *)
(* and NaN outside [0,1].  The table holds the lower half; the upper half  *)
(* follows by symmetry.                                                    *)
(***************************************************************************)
NormPpfTable ==
    (1 :> -233) @@ (5 :> -164) @@ (10 :> -128) @@ (25 :> -67) @@ (40 :> -25)
    @@ (50 :> 0)

norm_ppf(p) ==
    IF p < 0 \/ p > Percent THEN NaN
    ELSE IF p = 0 THEN NInf
    ELSE IF p = Percent THEN PInf
    ELSE IF 2 * p <= Percent THEN Num(NormPpfTable[p])
    ELSE Num(-NormPpfTable[Percent - p])

\* the confidence levels a call may be given, in percent
ConfidenceLevels == {-5, 0, 50, 60, 75, 90, 95, 99, 100, 105}
ValidConfidenceLevels == {c \in ConfidenceLevels : 0 < c /\ c < Percent}

(***************************************************************************)
(* parametric_var (metrics.py 149-182).  The value returned is in units    *)
(* of 1/10000 of (investment unit * return unit).                          *)
(***************************************************************************)
ZScoreMut(confidence_level) == norm_ppf(confidence_level)

\* `z_score = stats.norm.ppf(1 - confidence_level)`
ZScore(confidence_level) == norm_ppf(Percent - confidence_level)

\* `mu + z_score * sigma`, mu brought to the unit of the product
ParametricQuantile(returns, confidence_level) ==
    FAdd(FMul(Mean(returns), Num(Hundredths(1))),
         FMul(ZScore(confidence_level), Std(returns)))

\* `var_value = investment_value * abs(var)`
ParametricValue(var, investment_value) == FMul(Num(investment_value), FAbs(var))

parametric_var(returns, confidence_level, investment_value) ==
    IF ConfidenceOutOfRange(confidence_level)
    THEN Raised("ValueError", "Confidence level must be between 0 and 1")
    ELSE Returned(ParametricValue(FNeg(ParametricQuantile(returns, confidence_level)),
                                  investment_value))

(***************************************************************************)
(* calculate_returns (metrics.py 90-114).  prices: a sequence of positive  *)
(* integers.  The result has the length of the input, its first element    *)
(* NaN (`prices.shift(1)` has no value there), the others in thousandths.  *)
(***************************************************************************)
\* np.log of the integers 1..6, in thousandths
LnTable == <<0, 693, 1099, 1386, 1609, 1792>>

\* `np.log(p / q)` of two prices
LogRatio(p, q) == Num(LnTable[p] - LnTable[q])

\* `(p / q) - 1` of two prices, rounded down
SimpleRatio(p, q) == Num(((p - q) * 1000) \div q)

ShiftedMut(prices, i) == Num(prices[IF i = 1 THEN 1 ELSE i - 1])

\* `prices.shift(1)`: the element before position i, missing at the first
Shifted(prices, i) == IF i = 1 THEN NaN ELSE Num(prices[i - 1])

LogReturns(prices) ==
    [i \in 1..Len(prices) |->
        IF IsNaN(Shifted(prices, i)) THEN NaN
        ELSE LogRatio(prices[i], Shifted(prices, i).v)]

SimpleReturns(prices) ==
    [i \in 1..Len(prices) |->
        IF IsNaN(Shifted(prices, i)) THEN NaN
        ELSE SimpleRatio(prices[i], Shifted(prices, i).v)]

\* lines 104-105: `if not isinstance(prices, pd.Series): prices = pd.Series(prices)`
\* keeps the elements and their order
as_series(prices) == IF prices.kind = "series" THEN prices ELSE Series(prices.data)

calculate_returnsMut(prices, method) ==
    IF method = "log" THEN Returned(Series(LogReturns(prices)))
    ELSE Returned(Series(SimpleReturns(prices)))

\* lines 107-114, on the elements of the series
calculate_returns(prices, method) ==
    IF method = "log" THEN Returned(Series(LogReturns(prices)))
    ELSE IF method = "simple" THEN Returned(Series(SimpleReturns(prices)))
    ELSE Raised("ValueError", "method must be either 'log' or 'simple'")

(***************************************************************************)
(* np.dot(matrix, weights): matrix is a sequence of rows of floats, one    *)
(* column per asset; weights a sequence of integers (tenths).  The result  *)
(* has one element per row; a NaN in a row makes that element NaN.  When   *)
(* the number of columns differs from the number of weights numpy raises   *)
(* ValueError.                                                             *)
(***************************************************************************)
RECURSIVE DotRow(_, _)
DotRow(row, weights) ==
    IF row = <<>> THEN Num(0)
    ELSE FAdd(FMul(Head(row), Num(Head(weights))), DotRow(Tail(row), Tail(weights)))

ShapesAligned(matrix, weights) ==
    \A i \in DOMAIN matrix : Len(matrix[i]) = Len(weights)

dot(matrix, weights) ==
    IF ShapesAligned(matrix, weights)
    THEN Returned(Series([i \in DOMAIN matrix |-> DotRow(matrix[i], weights)]))
    ELSE Raised("ValueError", "shapes not aligned")

\* np.column_stack of k series of equal length n: n rows of k columns
column_stack(columns) ==
    [i \in 1..Len(columns[1]) |-> [j \in 1..Len(columns) |-> columns[j][i]]]

(***************************************************************************)
(* calculate_portfolio_returns (metrics.py 12-43), step by step.           *)
(* stock_prices is an ordered dict: a sequence of [ticker, prices].        *)
(***************************************************************************)
CountMismatchMut(stock_prices, weights) == Len(stock_prices) > Len(weights)

\* `len(stock_prices) != len(weights)`
CountMismatch(stock_prices, weights) == Len(stock_prices) # Len(weights)

(***************************************************************************)
(* portfolio_var (metrics.py 46-87).  returns: a matrix of integer asset   *)
(* returns, one column per asset; weights: integers (tenths).  The         *)
(* portfolio returns are in tenths of the return unit; means and standard  *)
(* deviations in hundredths of that.                                       *)
(***************************************************************************)
TradingDays == 252

\* `np.sqrt(252)`, in hundredths
SqrtTradingDays == Num(ISqrt(Hundredths(Hundredths(TradingDays))))

\* x / y of two floats that are numbers or NaN, as numpy divides: a zero
\* divisor gives an infinity, or NaN for 0 / 0.  The quotient of two numbers
\* of the same unit is in hundredths, rounded towards zero.
FDiv(f, g) ==
    IF IsNaN(f) \/ IsNaN(g) THEN NaN
    ELSE IF g.v = 0 THEN (IF f.v = 0 THEN NaN ELSE IF f.v > 0 THEN PInf ELSE NInf)
    ELSE Num(Sign(f.v) * Sign(g.v) * (Hundredths(Abs(f.v)) \div Abs(g.v)))

\* the integers of a sequence of floats that holds no NaN
Values(floats) == [i \in DOMAIN floats |-> floats[i].v]

PortfolioVarEstimateMut(portfolio_returns, confidence_level, investment_value, method) ==
    IF method = "historical"
    THEN parametric_var(portfolio_returns, confidence_level, investment_value)
    ELSE historical_var(portfolio_returns, confidence_level, investment_value)

\* lines 70-73: any method other than "historical" takes the else branch
PortfolioVarEstimate(portfolio_returns, confidence_level, investment_value, method) ==
    IF method = "historical"
    THEN historical_var(portfolio_returns, confidence_level, investment_value)
    ELSE parametric_var(portfolio_returns, confidence_level, investment_value)

\* lines 76-87
RiskMetrics(var, portfolio_returns) ==
    LET portfolio_std == Std(portfolio_returns)
        portfolio_mean == Mean(portfolio_returns)
        sharpe_ratio == FMul(FDiv(portfolio_mean, portfolio_std), SqrtTradingDays)
    IN  [var |-> var,
         daily_volatility |-> portfolio_std,
         annualized_volatility |-> FMul(portfolio_std, SqrtTradingDays),
         expected_return |-> portfolio_mean,
         annualized_return |-> FMul(portfolio_mean, Num(TradingDays)),
         sharpe_ratio |-> sharpe_ratio]

portfolio_var(returns, weights, confidence_level, investment_value, method) ==
    LET dotted == dot([i \in DOMAIN returns |-> [j \in DOMAIN returns[i] |-> Num(returns[i][j])]],
                      weights)
    IN  IF IsError(dotted) THEN dotted
        ELSE LET portfolio_returns == Values(dotted.val.data)
                 var == PortfolioVarEstimate(portfolio_returns, confidence_level,
                                             investment_value, method)
             IN  IF IsError(var) THEN var
                 ELSE Returned(RiskMetrics(var.val, portfolio_returns))

(***************************************************************************)
(* calculate_cumulative_yield (metrics.py 185-230).  prices: a series (a   *)
(* sequence of positive integers) or a table (a sequence of columns).      *)
(* Yields are percentages in thousandths.                                  *)
(***************************************************************************)
\* `np.exp(x)` of a sum of log returns, in thousandths: the ratio whose
\* logarithm x is
Exp(x) ==
    IF IsNaN(x) THEN NaN
    ELSE LET ratio == CHOOSE r \in (1..Len(LnTable)) \X (1..Len(LnTable)) :
                          LnTable[r[1]] - LnTable[r[2]] = x.v
         IN  Num((ratio[1] * 1000) \div ratio[2])

\* Series.cumsum(): a missing element stays missing and is skipped by the sum
RECURSIVE CumSumTo(_, _)
CumSumTo(floats, i) ==
    IF i = 0 THEN 0
    ELSE (IF IsNaN(floats[i]) THEN 0 ELSE floats[i].v) + CumSumTo(floats, i - 1)

cumsum(floats) ==
    [i \in DOMAIN floats |-> IF IsNaN(floats[i]) THEN NaN ELSE Num(CumSumTo(floats, i))]

\* `((prices - start_price) / start_price) * 100`
SimpleYield(prices) ==
    [i \in DOMAIN prices |->
        FMul(SimpleRatio(prices[i], prices[1]), Num(100))]

\* `(np.exp(returns.cumsum()) - 1) * 100`
LogYield(prices) ==
    LET sums == cumsum(calculate_returns(prices, "log").val.data)
    IN  [i \in DOMAIN prices |->
            FMul(FAdd(Exp(sums[i]), Num(-1000)), Num(100))]

SeriesYield(prices, method) ==
    IF method = "simple" THEN SimpleYield(prices) ELSE LogYield(prices)

calculate_cumulative_yield(prices, method) ==
    IF method \notin {"simple", "log"}
    THEN Raised("ValueError", "method must be either 'simple' or 'log'")
    ELSE IF prices.kind = "series"
         THEN Returned(Series(SeriesYield(prices.data, method)))
         ELSE Returned(Frame([c \in DOMAIN prices.columns |->
                                 SeriesYield(prices.columns[c], method)]))

(***************************************************************************)
(* forward_pe_ratio (metrics.py 302-342).  An argument is a scalar or a    *)
(* series of integers; two series are aligned.  A ratio is in hundredths.  *)
(***************************************************************************)
ReplaceInfMut(f) == f

\* `pe.replace([np.inf, -np.inf], np.nan)` on one element
ReplaceInf(f) == IF IsInf(f) THEN NaN ELSE f

\* element i of an argument, a scalar being broadcast
ElementOf(arg, i) == IF arg.kind = "series" THEN arg.data[i] ELSE arg.x

SeriesIndex(current_price, forward_eps) ==
    IF current_price.kind = "series" THEN DOMAIN current_price.data
    ELSE DOMAIN forward_eps.data

forward_pe_ratio(current_price, forward_eps) ==
    IF current_price.kind = "series" \/ forward_eps.kind = "series"
    THEN Returned(Series([i \in SeriesIndex(current_price, forward_eps) |->
                             ReplaceInf(FDiv(Num(ElementOf(current_price, i)),
                                             Num(ElementOf(forward_eps, i))))]))
    ELSE IF forward_eps.x <= 0
         THEN Returned(Scalar(NaN))
         ELSE Returned(Scalar(FDiv(Num(current_price.x), Num(forward_eps.x))))

(***************************************************************************)
(* The portfolio VaR endpoint, portfolio_var_simulation (main.py 54-87).   *)
(* A request carries tickers, weights, days, confidence_level,             *)
(* investment_value and method.  The weights of a request are integers in  *)
(* hundredths, so the tolerance band [0.99, 1.01] is 99..101.              *)
(***************************************************************************)
WeightSumLow == 99
WeightSumHigh == 101

WeightsSumInvalidMut(weights) == ~ (WeightSumLow - 1 <= Sum(weights) /\ Sum(weights) <= WeightSumHigh + 1)

\* line 60: `not 0.99 <= sum(request.weights) <= 1.01`
WeightsSumInvalid(weights) == ~ (WeightSumLow <= Sum(weights) /\ Sum(weights) <= WeightSumHigh)

\* `stock_data[ticker] = ...` on a dict kept in insertion order: a key that
\* is present keeps its place and takes the new value
DictSet(d, ticker, prices) ==
    IF \E j \in DOMAIN d : d[j].ticker = ticker
    THEN [j \in DOMAIN d |->
             IF d[j].ticker = ticker THEN [ticker |-> ticker, prices |-> prices] ELSE d[j]]
    ELSE Append(d, [ticker |-> ticker, prices |-> prices])

\* calculate_portfolio_returns (metrics.py 12-43) as one function of its
\* arguments; np.column_stack raises when the series differ in length
calculate_portfolio_returns(stock_prices, weights) ==
    IF CountMismatch(stock_prices, weights)
    THEN Raised("ValueError", "Number of stocks must match number of weights")
    ELSE LET returns_by_ticker ==
                 [j \in DOMAIN stock_prices |->
                     calculate_returns(stock_prices[j].prices, "log").val.data]
         IN  IF \E j \in DOMAIN returns_by_ticker :
                    Len(returns_by_ticker[j]) # Len(returns_by_ticker[1])
             THEN Raised("ValueError", "all the input array dimensions must match")
             ELSE dot(column_stack(returns_by_ticker), weights)

\* np.dot of two one-dimensional arrays: their inner product, a scalar
inner(vector, weights) ==
    IF Len(vector) # Len(weights)
    THEN Raised("ValueError", "shapes not aligned")
    ELSE Returned(Scalar(DotRow(vector, weights)))

\* the risk metrics when every statistic of the portfolio returns is NaN
MissingMetrics ==
    [var |-> NaN, daily_volatility |-> NaN, annualized_volatility |-> NaN,
     expected_return |-> NaN, annualized_return |-> NaN, sharpe_ratio |-> NaN]

\* portfolio_var (metrics.py 46-87) as the endpoint calls it: `returns` is
\* the one-dimensional array that calculate_portfolio_returns returned, so
\* np.dot gives one number, which the estimators wrap into a series of one
\* element; a NaN there makes every statistic NaN
portfolio_var_of_vector(returns, weights, confidence_level, investment_value, method) ==
    LET dotted == inner(returns, weights)
    IN  IF IsError(dotted) THEN dotted
        ELSE IF ConfidenceOutOfRange(confidence_level)
        THEN Raised("ValueError", "Confidence level must be between 0 and 1")
        ELSE IF IsNaN(dotted.val.x) THEN Returned(MissingMetrics)
        ELSE LET portfolio_returns == <<dotted.val.x.v>>
                 var == PortfolioVarEstimate(portfolio_returns, confidence_level,
                                             investment_value, method)
             IN  Returned(RiskMetrics(var.val, portfolio_returns))

\* lines 82-85: `{ticker: weight for ticker, weight in zip(tickers, weights)}`
RECURSIVE Composition(_, _)
Composition(tickers, weights) ==
    IF tickers = <<>> \/ weights = <<>> THEN <<>>
    ELSE LET n == IF Len(tickers) <= Len(weights) THEN Len(tickers) ELSE Len(weights)
         IN  DictSet(Composition(SubSeq(tickers, 1, n - 1), SubSeq(weights, 1, n - 1)),
                     tickers[n], weights[n])

\* lines 69-87, after the prices are fetched
RiskMetricsResponse(request, fetched_data) ==
    LET returns == calculate_portfolio_returns(fetched_data, request.weights)
    IN  IF IsError(returns) THEN returns
        ELSE LET risk_metrics ==
                     portfolio_var_of_vector(returns.val.data, request.weights,
                                             request.confidence_level,
                                             request.investment_value, request.method)
             IN  IF IsError(risk_metrics) THEN risk_metrics
                 ELSE Returned([risk_metrics |-> risk_metrics.val,
                                portfolio_composition |->
                                    Composition(request.tickers, request.weights)])

(***************************************************************************)
(* historic_pe_ratio (metrics.py 233-299).  prices: a table of             *)
(* observations, of which the function reads the year of the date and the  *)
(* close; financials: a table of rows [year, eps] that has either a 'Year' *)
(* column (form "Year", one row per year) or a 'Date' column (form "Date", *)
(* quarterly rows that are summed by year).  An EPS figure is a float.  A  *)
(* ratio is in hundredths.                                                 *)
(***************************************************************************)
Table(rows) == [kind |-> "table", rows |-> rows]

YearsOf(rows) == {rows[i].year : i \in DOMAIN rows}

MinOf(S) == CHOOSE x \in S : \A y \in S : x <= y
MaxOf(S) == CHOOSE x \in S : \A y \in S : y <= x

\* `groupby('Year')[eps_col].sum()` for one year: missing figures are
\* skipped, and the sum of no figure is 0
RECURSIVE GroupSum(_, _)
GroupSum(rows, year) ==
    IF rows = <<>> THEN 0
    ELSE (IF Head(rows).year = year /\ IsNum(Head(rows).eps) THEN Head(rows).eps.v ELSE 0)
         + GroupSum(Tail(rows), year)

\* lines 276-283: the EPS by year, a function on the years that have a row
\* (`sort_index` orders the years, which a function's domain leaves open)
yearly_eps(financials) ==
    IF financials.form = "Year"
    THEN [y \in YearsOf(financials.rows) |->
             financials.rows[CHOOSE i \in DOMAIN financials.rows :
                                 financials.rows[i].year = y].eps]
    ELSE [y \in YearsOf(financials.rows) |-> Num(GroupSum(financials.rows, y))]

\* with a 'Year' column two rows of one year are two equal index labels, on
\* which `reindex` raises
DuplicateLabels(financials) ==
    /\ financials.form = "Year"
    /\ \E i, j \in DOMAIN financials.rows :
          i # j /\ financials.rows[i].year = financials.rows[j].year

ReindexedMut(yearly, min_year, year) ==
    LET known == {y \in DOMAIN yearly : ~ IsNaN(yearly[y])}
    IN  IF known = {} THEN NaN
        ELSE yearly[CHOOSE y \in known :
                        \A z \in known : Abs(y - year) <= Abs(z - year)]

\* `yearly_eps.reindex(range(min_year, max_year + 1)).ffill()` at one year:
\* the figure of that year, or else the one filled forward from the year
\* before; the range starts at min_year and reaches every year of a price
RECURSIVE Reindexed(_, _, _)
Reindexed(yearly, min_year, year) ==
    IF year < min_year THEN NaN
    ELSE IF year \in DOMAIN yearly /\ ~ IsNaN(yearly[year]) THEN yearly[year]
    ELSE Reindexed(yearly, min_year, year - 1)

historic_pe_ratio(prices, financials) ==
    IF DuplicateLabels(financials)
    THEN Raised("ValueError", "cannot reindex on an axis with duplicate labels")
    ELSE LET yearly == yearly_eps(financials)
             min_year == MinOf(DOMAIN yearly \cup YearsOf(prices.rows))
             \* lines 291-293
             eps_series == [i \in DOMAIN prices.rows |->
                               Reindexed(yearly, min_year, prices.rows[i].year)]
         IN  \* lines 296-297
             Returned(Series([i \in DOMAIN prices.rows |->
                                 ReplaceInf(FDiv(Num(prices.rows[i].close),
                                                 eps_series[i]))]))

(***************************************************************************)
(* Exponential moving averages.  fetch_stock_data derives the columns      *)
(* ema50 and ema200 from Close with `ewm(span=..., adjust=False).mean()`   *)
(* (data.py 331-332).  The averages are exact fractions: alpha is num/den, *)
(* and element i of an average has the denominator alpha.den^(i-1).        *)
(***************************************************************************)
Ratio(num, den) == [num |-> num, den |-> den]

SpanAlphaMut(span) == Ratio(1, span)

\* pandas turns a span into the centre of mass com = (span - 1)/2 and
\* alpha = 1/(1 + com)
SpanAlpha(span) == Ratio(2, 2 + (span - 1))

\* `Series.ewm(alpha, adjust=False).mean()`: the first value is the first
\* observation; each later value weighs the value before it with 1 - alpha
\* and the observation with alpha, and divides by the sum of the weights, 1
RECURSIVE EwmMean(_, _)
EwmMean(x, alpha) ==
    IF x = <<>> THEN <<>>
    ELSE IF Len(x) = 1 THEN <<Ratio(x[1], 1)>>
    ELSE LET before == EwmMean(SubSeq(x, 1, Len(x) - 1), alpha)
             weighted == before[Len(before)]
             old_wt == alpha.den - alpha.num
             new_wt == alpha.num
         IN  Append(before,
                    Ratio(old_wt * weighted.num + new_wt * x[Len(x)] * weighted.den,
                          (old_wt + new_wt) * weighted.den))

EmaShort == 50
EmaLong == 200

\* lines 330-333 of fetch_stock_data: the indicator columns of a frame with
\* the Close column `close`
Indicators(close) ==
    [kind |-> "indicators", Close |-> close,
     ema50 |-> EwmMean(close, SpanAlpha(EmaShort)),
     ema200 |-> EwmMean(close, SpanAlpha(EmaLong)),
     yield |-> calculate_cumulative_yield(Series(close), "simple").val.data]

(***************************************************************************)
(* exponential_weighted_moving_average(series, window, alpha=None): the    *)
(* tests import it from the metrics module (test_metrics.py 14, 253-278),  *)
(* which does not define it; it is modelled from the specification.        *)
(***************************************************************************)
NoAlpha == [given |-> FALSE, num |-> 0, den |-> 1]
Alpha(num, den) == [given |-> TRUE, num |-> num, den |-> den]

\* `alpha = 2/(window+1)` when alpha is omitted
ewma_alpha(window, alpha) ==
    IF alpha.given THEN Ratio(alpha.num, alpha.den) ELSE Ratio(2, window + 1)

\* `ewma[0] = series[0]`; `ewma[i] = alpha*series[i] + (1-alpha)*ewma[i-1]`
RECURSIVE ewma(_, _)
ewma(series, alpha) ==
    IF series = <<>> THEN <<>>
    ELSE IF Len(series) = 1 THEN <<Ratio(series[1], 1)>>
    ELSE LET before == ewma(SubSeq(series, 1, Len(series) - 1), alpha)
             last == before[Len(before)]
         IN  Append(before,
                    Ratio(alpha.num * series[Len(series)] * last.den
                              + (alpha.den - alpha.num) * last.num,
                          alpha.den * last.den))

exponential_weighted_moving_average(series, window, alpha) ==
    IF window < 1 THEN Raised("ValueError", "Window size must be at least 1")
    ELSE IF alpha.given /\ ~ (0 < alpha.num /\ alpha.num <= alpha.den)
    THEN Raised("ValueError", "Alpha must be between 0 and 1")
    ELSE Returned(Series(ewma(series, ewma_alpha(window, alpha))))

(***************************************************************************)
(* What a call leaves in the containers it was handed.  Python passes      *)
(* frames, series and arrays by reference.  Of the metrics functions only  *)
(* historic_pe_ratio assigns into a frame (lines 269, 278, 279), and it    *)
(* does so on what `.copy()` returned (lines 267, 274).  The heap maps the *)
(* names of objects to their contents.                                     *)
(***************************************************************************)
NoContainers == [held |-> "none"]

\* a frame on the heap, as the caller built it: `datetime` says that its
\* Date column has been converted by pd.to_datetime, `year_column` that a
\* Year column has been added
Object(frame) == [frame |-> frame, datetime |-> FALSE, year_column |-> FALSE]

CopyMut(source, fresh) == source

\* `source.copy()`: the name of the object that the result refers to, a
\* fresh one
Copy(source, fresh) == fresh

\* the heap after `target = source.copy()`
Bound(heap, source, target) ==
    [name \in DOMAIN heap \cup {target} |->
        IF name = target THEN heap[source] ELSE heap[name]]

\* the caller's `prices` and `financials` after historic_pe_ratio
historic_pe_ratio_leaves(prices, financials) ==
    LET heap0 == [name \in {"prices", "financials"} |->
                     IF name = "prices" THEN Object(prices) ELSE Object(financials)]
        \* line 267
        price_df == Copy("prices", "price_df")
        heap1 == Bound(heap0, "prices", price_df)
        \* line 269
        heap2 == [heap1 EXCEPT ![price_df].datetime = TRUE]
        \* line 274
        fin == Copy("financials", "fin")
        heap3 == Bound(heap2, "financials", fin)
        \* lines 275-279
        heap4 == IF financials.form = "Year" THEN heap3
                 ELSE [heap3 EXCEPT ![fin].datetime = TRUE, ![fin].year_column = TRUE]
    IN  [prices |-> heap4["prices"], financials |-> heap4["financials"]]

(***************************************************************************)
(* The database (src/src/database.py).  A connection holds two tables,     *)
(* once create_db has made them; a table is the set of its rows.  A row of *)
(* daily_stock_price is [Date, Ticker, Close] (the other price columns are *)
(* carried along like Close), a row of financial_data is [Ticker, Year,    *)
(* BasicEPS] (likewise).  A date is a day number: the dates are stored and *)
(* compared as ISO text, whose order is the order of the days.  A function *)
(* of the module is an operator from its arguments to the connection it    *)
(* leaves and the outcome of the call.                                     *)
(***************************************************************************)
NoTables == [created |-> FALSE, daily_stock_price |-> {}, financial_data |-> {}]

\* what a function without a return statement returns
None == [kind |-> "None"]

After(c, outcome) == [conn |-> c, result |-> outcome]

\* lines 6-41: `CREATE TABLE IF NOT EXISTS` keeps a table that exists
create_db(c) == After([c EXCEPT !.created = TRUE], Returned(None))

\* `PRIMARY KEY (Date, Ticker)` (line 22)
StockKey(row) == <<row.Date, row.Ticker>>

\* `PRIMARY KEY (Ticker)` (line 38)
FinancialKey(row) == <<row.Ticker>>

\* `df.to_sql(table, conn, if_exists='append', index=False)` inserts the rows
\* in one transaction: a row whose key is in the table already, or twice
\* among the rows, fails the insert and none of the rows is stored
\* (`stored` are the keys in the table, `inserted` the keys of the rows)
KeyViolated(stored, inserted) ==
    \/ \E i, j \in DOMAIN inserted : i # j /\ inserted[i] = inserted[j]
    \/ \E i \in DOMAIN inserted : inserted[i] \in stored

RowsOf(rows) == {rows[i] : i \in DOMAIN rows}

InRangeMut(row, ticker, start_date, end_date) ==
    row.Ticker = ticker /\ start_date < row.Date /\ row.Date <= end_date

\* `WHERE Ticker = '{ticker}' AND Date BETWEEN '{start_date}' AND '{end_date}'`
InRange(row, ticker, start_date, end_date) ==
    row.Ticker = ticker /\ start_date <= row.Date /\ row.Date <= end_date

DeleteStockRangeMut(table, ticker, start_date, end_date) ==
    {row \in table : ~ (start_date <= row.Date /\ row.Date <= end_date)}

\* lines 53-58: the DELETE, committed before the insert
DeleteStockRange(table, ticker, start_date, end_date) ==
    {row \in table : ~ InRange(row, ticker, start_date, end_date)}

\* lines 43-65.  df: a table of one or more rows
insert_to_stock_data(df, c) ==
    LET ticker == df.rows[1].Ticker
        start_date == MinOf({df.rows[i].Date : i \in DOMAIN df.rows})
        end_date == MaxOf({df.rows[i].Date : i \in DOMAIN df.rows})
        kept == DeleteStockRange(c.daily_stock_price, ticker, start_date, end_date)
    IN  IF ~ c.created
        THEN After(c, Raised("OperationalError", "no such table: daily_stock_price"))
        ELSE IF KeyViolated({StockKey(row) : row \in kept},
                            [i \in DOMAIN df.rows |-> StockKey(df.rows[i])])
        THEN After([c EXCEPT !.daily_stock_price = kept],
                   Raised("IntegrityError", "UNIQUE constraint failed"))
        ELSE After([c EXCEPT !.daily_stock_price = kept \cup RowsOf(df.rows)],
                   Returned(None))

\* line 72: `df.insert(loc=0, column='Ticker', value=ticker)`
WithTicker(df, ticker) ==
    [i \in DOMAIN df.rows |->
        [Ticker |-> ticker, Year |-> df.rows[i].Year, BasicEPS |-> df.rows[i].BasicEPS]]

\* lines 76-80: the DELETE, committed before the insert
DeleteTicker(table, ticker) == {row \in table : row.Ticker # ticker}

\* lines 67-87
insert_to_financial_data(df, ticker, c) ==
    LET rows == WithTicker(df, ticker)
        kept == DeleteTicker(c.financial_data, ticker)
    IN  IF ~ c.created
        THEN After(c, Raised("OperationalError", "no such table: financial_data"))
        ELSE IF KeyViolated({FinancialKey(row) : row \in kept},
                            [i \in DOMAIN rows |-> FinancialKey(rows[i])])
        THEN After([c EXCEPT !.financial_data = kept],
                   Raised("IntegrityError", "UNIQUE constraint failed"))
        ELSE After([c EXCEPT !.financial_data = kept \cup RowsOf(rows)],
                   Returned(None))

(***************************************************************************)
(* The terminal application, StockAnalysisApp (src/src/tui.py).  `app`     *)
(* holds the two input fields and the fields current_df and                *)
(* current_ticker.  Dates are day numbers; Today is the day the            *)
(* application runs on.  An event handler runs to its end before the next  *)
(* event is handled.                                                       *)
(***************************************************************************)
Today == 60
DaysLow == 1
DaysHigh == 51
DaysDefault == 50

\* None, also for current_ticker, where it is as falsy as the empty string
NoTicker == ""

NotStarted ==
    [started |-> FALSE, ticker_input |-> "", days_input |-> "",
     current_df |-> None, current_ticker |-> NoTicker]

\* lines 184-199: __init__ and the initial values of the two inputs
Started ==
    [started |-> TRUE, ticker_input |-> "AAPL", days_input |-> "50",
     current_df |-> None, current_ticker |-> NoTicker]

\* `ticker_input.value.strip().upper()` on the texts a user types here
strip_upper(text) ==
    CASE text = " aapl " -> "AAPL"
      [] text = "aapl" -> "AAPL"
      [] OTHER -> text

\* the decimal texts a user types here, and what int() makes of them;
\* int() raises ValueError for every other text
DecimalValue ==
    ("0" :> 0) @@ ("1" :> 1) @@ ("50" :> 50) @@ ("51" :> 51) @@ ("52" :> 52)
        @@ ("252" :> 252)

\* line 252: `int(days_input.value) if days_input.value else 50`
DaysOf(text) == IF text = "" THEN DaysDefault ELSE DecimalValue[text]

DaysRejectedMut(days) == days < DaysLow \/ days > DaysHigh + 1

\* line 257
DaysRejected(days) == days < DaysLow \/ days > DaysHigh

\* what a handler did: the last notification, and whether it queried the
\* database, called the price supplier, wrote to the database
Outcome(notification, severity, queried, supplier_called, wrote) ==
    [kind |-> "notified", notification |-> notification, severity |-> severity,
     queried |-> queried, supplier_called |-> supplier_called, wrote |-> wrote]

\* a frame as a set of records
Records(rows) == [kind |-> "records", rows |-> rows]

\* lines 270-275: the rows of the ticker dated in the last `days` days
StoredInWindow(c, ticker, days) ==
    {row \in c.daily_stock_price :
        row.Ticker = ticker /\ Today - days <= row.Date /\ row.Date <= Today}

\* line 278: `df.empty or df.Date.min() != str(date.today() - timedelta(days))`
Incomplete(rows, days) ==
    rows = {} \/ MinOf({row.Date : row \in rows}) # Today - days

\* the frame of the supplier for the days `supplied`, in date order
RECURSIVE SuppliedRows(_, _)
SuppliedRows(ticker, supplied) ==
    IF supplied = {} THEN <<>>
    ELSE LET last == MaxOf(supplied)
         IN  Append(SuppliedRows(ticker, supplied \ {last}),
                    [Date |-> last, Ticker |-> ticker, Close |-> 1])

\* lines 240-299.  a: the application's fields, c: its connection,
\* offsets: the days, counted from start_date, for which the supplier has
\* prices (none: fetch_stock_data raises ValueError)
tui_fetch_stock_data(a, c, offsets) ==
    LET ticker == strip_upper(a.ticker_input)
        Rejected(notification, queried, supplier_called) ==
            [app |-> a, conn |-> c,
             outcome |-> Outcome(notification, "error", queried, supplier_called, FALSE)]
        Loaded(cc, rows, supplier_called) ==
            [app |-> [a EXCEPT !.current_df = Records(rows), !.current_ticker = ticker],
             conn |-> cc,
             outcome |-> Outcome("Successfully loaded records", "information",
                                 TRUE, supplier_called, supplier_called)]
    IN  IF ticker = "" THEN Rejected("Please enter a ticker symbol", FALSE, FALSE)
        ELSE IF a.days_input # "" /\ a.days_input \notin DOMAIN DecimalValue
        THEN Rejected("Days must be a number", FALSE, FALSE)
        ELSE IF DaysRejected(DaysOf(a.days_input))
        THEN Rejected("Days must be between 1 and 50", FALSE, FALSE)
        ELSE LET days == DaysOf(a.days_input)
                 start_date == Today - days
                 stored == StoredInWindow(c, ticker, days)
                 supplied == {start_date + o : o \in offsets}
             IN  IF ~ Incomplete(stored, days) THEN Loaded(c, stored, FALSE)
                 ELSE IF supplied = {} THEN Rejected("Error fetching data", TRUE, TRUE)
                 ELSE LET df == Table(SuppliedRows(ticker, supplied))
                          inserted == insert_to_stock_data(df, c)
                      IN  IF IsError(inserted.result)
                          THEN [app |-> a, conn |-> inserted.conn,
                                outcome |-> Outcome("Error fetching data", "error",
                                                    TRUE, TRUE, TRUE)]
                          ELSE Loaded(inserted.conn, RowsOf(df.rows), TRUE)

\* lines 336-355
clear_data(a) ==
    [a EXCEPT !.ticker_input = "", !.days_input = "252",
              !.current_df = None, !.current_ticker = NoTicker]

(***************************************************************************)
(* The Streamlit portfolio page (src/streamlit_app.py 436-657), the part   *)
(* run when "Calculate Portfolio VaR" is pressed.  Weights are integers in *)
(* thousandths, so 1.00 is 1000 and the 0.001 of line 504 is 1.            *)
(***************************************************************************)
One == 1000
PageTolerance == 1

\* line 456: `.upper()` on the texts a user types here
upper(text) == IF text = "aapl" THEN "AAPL" ELSE text

\* line 502: `not all(tickers) or not all(weights)`; the empty text and the
\* weight 0.0 are falsy
NotAllFilled(tickers, weights) ==
    \/ \E j \in DOMAIN tickers : tickers[j] = ""
    \/ \E j \in DOMAIN weights : weights[j] = 0

\* line 504: `not sum(weights) - 1.00 <= 0.001`
WeightsOff(weights) == ~ (Sum(weights) - One <= PageTolerance)

\* what the page showed: an error or the results, whether the spinner block
\* (fetch and compute) was entered, and the number of fetches made
Shown(kind, message, proceeded, fetches) ==
    [kind |-> kind, message |-> message, proceeded |-> proceeded, fetches |-> fetches]

\* lines 500-657.  failing: the position of the first ticker for which
\* fetch_stock_data raises, 0 when it raises for none.  After the
\* computation the page formats `float(result['var'])` (line 560), where
\* result['var'] is the dict that portfolio_var returned: a TypeError, which
\* the except clause of line 656 reports
calculate_portfolio_var_pressed(typed, weights, failing) ==
    LET tickers == [j \in DOMAIN typed |-> upper(typed[j])]
    IN  IF NotAllFilled(tickers, weights)
        THEN Shown("error", "Please fill in all tickers and weights", FALSE, 0)
        ELSE IF WeightsOff(weights)
        THEN Shown("error", "Weights must sum to 1", FALSE, 0)
        ELSE IF failing \in DOMAIN tickers
        THEN Shown("error", "Error calculating portfolio VaR: Error fetching data",
                   TRUE, failing)
        ELSE IF Cardinality({tickers[j] : j \in DOMAIN tickers}) # Len(weights)
        THEN Shown("error", "Error calculating portfolio VaR: shapes not aligned",
                   TRUE, Len(tickers))
        ELSE Shown("error", "Error calculating portfolio VaR: float() argument",
                   TRUE, Len(tickers))

(***************************************************************************)
(* The Flask handler var_analysis_single (src/frontend/app.py 65-112).     *)
(* The form fields are texts; the returns field is a list of tokens        *)
(* between commas.                                                         *)
(***************************************************************************)
\* float(text) for the texts submitted here: returns as the integers of the
\* estimators' samples, confidence levels as percentages; float() raises
\* ValueError for every other text
FloatValue ==
    ("-2" :> -2) @@ ("-1" :> -1) @@ ("0" :> 0) @@ ("1" :> 1) @@ ("2" :> 2)
        @@ ("0.5" :> 50) @@ ("0.95" :> 95) @@ ("1.5" :> 150)

\* line 75: `[float(r) for r in returns.split(',') if r.strip()]`, for tokens
\* that float() accepts or that are blank
RECURSIVE ParsedReturns(_)
ParsedReturns(tokens) ==
    IF tokens = <<>> THEN <<>>
    ELSE IF Head(tokens) = "" THEN ParsedReturns(Tail(tokens))
    ELSE <<FloatValue[Head(tokens)]>> \o ParsedReturns(Tail(tokens))

\* render_template('var_analysis.html', ...)
Template(context) == [kind |-> "template", context |-> context]

\* lines 68-110
var_analysis_single(form) ==
    IF \/ \E j \in DOMAIN form.returns :
             form.returns[j] # "" /\ form.returns[j] \notin DOMAIN FloatValue
       \/ form.confidence_level \notin DOMAIN FloatValue
       \/ form.investment_value \notin DOMAIN FloatValue
    THEN Template([error |-> "could not convert string to float"])
    ELSE LET returns == ParsedReturns(form.returns)
             confidence_level == FloatValue[form.confidence_level]
             investment_value == FloatValue[form.investment_value]
             first == historical_var(returns, confidence_level, investment_value)
             second == parametric_var(returns, confidence_level, investment_value)
         IN  IF IsError(first) THEN Template([error |-> first.msg])
             ELSE IF IsError(second) THEN Template([error |-> second.msg])
             ELSE Template([parametric_var |-> first.val, historical_var |-> second.val,
                            confidence_level |-> confidence_level])

(***************************************************************************)
(* Inputs.                                                                 *)
(***************************************************************************)
SeqsOfLen(S, n) == [1..n -> S]
SeqsUpTo(S, n) == UNION {SeqsOfLen(S, m) : m \in 1..n}

ReturnSamples == SeqsUpTo(-MaxRet..MaxRet, MaxLen)
InvestmentValues == 0..MaxInvest
PriceSeries == SeqsUpTo(1..MaxPrice, MaxLen)
Methods == {"log", "simple", "invalid", "Log"}
\* a price series given as a Series, a list or an array
PriceInputs == UNION {{Series(ps), List(ps), Array(ps)} : ps \in PriceSeries}

\* portfolios: the tickers in dict order, price series of a common length
Tickers == <<"AAPL", "MSFT">>
WeightValues == {4, 6}
\* the weight 1.0 of a portfolio of one asset, in tenths
FullWeight == 10
MatrixReturns == {-1, 0, 2}
WeightVectors == SeqsUpTo(WeightValues, Len(Tickers) + 1)
StockPrices ==
    UNION {[1..k -> {[ticker |-> t, prices |-> ps] :
                        t \in {Tickers[j] : j \in 1..Len(Tickers)},
                        ps \in SeqsOfLen(1..MaxPrice, n)}] :
           k \in 1..Len(Tickers), n \in 1..MaxRows}
ReturnMatrices ==
    UNION {SeqsOfLen(SeqsOfLen(MatrixReturns, k), n) :
           k \in 1..Len(Tickers), n \in 1..(MaxRows + 1)}
PortfolioMethods == {"historical", "parametric", "invalid"}
PortfolioConfidenceLevels == {50, 95, 100}
PortfolioInvestments == {1, MaxInvest}
\* the weights given with a returns matrix of k columns
PortfolioVarWeights(k) ==
    SeqsOfLen(IF k = 1 THEN WeightValues \cup {FullWeight} ELSE WeightValues, k)
YieldMethods == {"simple", "log", "invalid"}
PriceTables ==
    UNION {SeqsOfLen(SeqsOfLen(1..MaxPrice, n), k) :
           k \in 1..Len(Tickers), n \in 1..MaxRows}
YieldInputs ==
    {Series(ps) : ps \in PriceSeries} \cup {Frame(t) : t \in PriceTables}
Scalars(S) == {Scalar(x) : x \in S}
SeriesOf(S, n) == {Series(d) : d \in SeqsOfLen(S, n)}
SpotPrices == 1..MaxPrice
EpsValues == -MaxEps..MaxEps
\* scalar and scalar, series and series of one length, series and scalar
ForwardPeInputs ==
    (Scalars(SpotPrices) \X Scalars(EpsValues))
    \cup UNION {SeriesOf(SpotPrices, n) \X SeriesOf(EpsValues, n) : n \in 1..MaxRows}
    \cup UNION {SeriesOf(SpotPrices, n) \X Scalars(EpsValues) : n \in 1..MaxRows}
    \cup UNION {Scalars(SpotPrices) \X SeriesOf(EpsValues, n) : n \in 1..MaxRows}
PortfolioPrices ==
    {sp \in StockPrices : \A j \in DOMAIN sp : sp[j].ticker = Tickers[j]}
\* the years of the price dates and of the financial statements
FiscalYears == {2021, 2022, 2023}
\* an EPS figure of a statement row: missing, a loss, zero or a profit
EpsFigures == {NaN, Num(-1), Num(0), Num(2)}
PriceObservations ==
    {Table(rows) : rows \in SeqsUpTo([year : FiscalYears, close : {1, MaxPrice}], MaxRows)}
Financials ==
    [form : {"Year", "Date"},
     rows : SeqsUpTo([year : FiscalYears, eps : EpsFigures], MaxFin)]
\* windows and alphas of the moving average: 0 is no window; 0 and 3/2 are
\* no alphas
Windows == 0..MaxLen
Alphas == {NoAlpha, Alpha(0, 1), Alpha(3, 10), Alpha(1, 1), Alpha(3, 2)}
\* what a user enters on the portfolio page: one or two assets
PageTickers == SeqsUpTo({"", "aapl", "AAPL", "MSFT"}, 2)
PageWeights == SeqsUpTo({0, 300, 495, 500, 501, 506, One}, 2)
\* the form of the Flask page: the first token of the returns is a number
FormReturns ==
    {tokens \in SeqsUpTo({"", "-2", "-1", "0", "1", "2", "x"}, MaxLen) :
        tokens[1] \notin {"", "x"}}
Forms ==
    [returns : FormReturns, confidence_level : {"0.5", "0.95", "1.5", "high"},
     investment_value : {"0", "2"}]
\* what a user types into the two inputs of the terminal application
TickerTexts == {"", "AAPL", " aapl "}
DaysTexts == {"", "0", "1", "50", "51", "52", "252", "abc"}
\* the days, counted from start_date, for which the supplier has prices
SupplierOffsets == SUBSET {0, 1}
\* requests of the endpoint: one or two tickers, which may repeat, and up to
\* three weights in hundredths
RequestWeights == SeqsUpTo({20, 38, 39, 41, 42, 60, 100}, Len(Tickers) + 1)
RequestTickers == SeqsUpTo({Tickers[j] : j \in DOMAIN Tickers}, Len(Tickers))
DefaultDays == 252
Requests ==
    [tickers : RequestTickers, weights : RequestWeights, days : {DefaultDays},
     confidence_level : {95, 100}, investment_value : {MaxInvest},
     method : PortfolioMethods]
\* what fetch_stock_data may return as the Close column
FetchedCloses == SeqsUpTo({1, 2}, MaxLen)
\* the days of the stored and inserted prices
Dates == {1, 2, 3}
TickerSet == {Tickers[j] : j \in DOMAIN Tickers}
\* a frame of daily prices of one ticker, in date order
StockFrames ==
    UNION {{Table(rows) :
               rows \in {r \in SeqsUpTo([Date : Dates, Ticker : {t}, Close : {1, MaxPrice}],
                                        MaxRows) :
                            \A i \in 1..(Len(r) - 1) : r[i].Date <= r[i + 1].Date}} :
           t \in TickerSet}
\* a frame of yearly statements, one row per year, in year order
FinancialFrames ==
    {Table(rows) :
        rows \in {r \in SeqsUpTo([Year : FiscalYears, BasicEPS : {1, 2}], MaxFin) :
                     \A i \in 1..(Len(r) - 1) : r[i].Year < r[i + 1].Year}}

(***************************************************************************)
(* The state machine.  The library keeps no state between calls, so a      *)
(* behaviour is one call: from "idle" a call is made with some arguments   *)
(* and runs to "done", where `result` holds what it returned or raised.    *)
(* `call` records the function and its arguments under the parameter       *)
(* names of the source; the `returns` matrix of portfolio_var is recorded  *)
(* as returns_matrix to keep it apart from the one-dimensional `returns`   *)
(* of the two estimators.  `caller` holds the containers that the caller    *)
(* handed to the call, as the call has left them: Python passes them by    *)
(* reference, so an assignment into one of them inside the function would  *)
(* show there.                                                             *)
(***************************************************************************)
Init ==
    /\ pc = "idle"
    /\ call = [fn |-> "none"]
    /\ result = NoResult
    /\ stock_returns = <<>>
    /\ conn = NoTables
    /\ stock_data = <<>>
    /\ fetched = 0
    /\ caller = NoContainers
    /\ app = NotStarted

Call_historical_var ==
    /\ pc = "idle"
    /\ \E returns \in ReturnSamples, c \in ConfidenceLevels, v \in InvestmentValues :
          /\ call' = [fn |-> "historical_var", returns |-> returns,
                      confidence_level |-> c, investment_value |-> v]
          /\ result' = historical_var(returns, c, v)
          /\ caller' = [returns |-> returns]
    /\ pc' = "done"
    /\ UNCHANGED stock_returns
    /\ UNCHANGED <<conn, stock_data, fetched>>
    /\ UNCHANGED app

Call_parametric_var ==
    /\ pc = "idle"
    /\ \E returns \in ReturnSamples, c \in ConfidenceLevels, v \in InvestmentValues :
          /\ call' = [fn |-> "parametric_var", returns |-> returns,
                      confidence_level |-> c, investment_value |-> v]
          /\ result' = parametric_var(returns, c, v)
          /\ caller' = [returns |-> returns]
    /\ pc' = "done"
    /\ UNCHANGED stock_returns
    /\ UNCHANGED <<conn, stock_data, fetched>>
    /\ UNCHANGED app

Call_calculate_returns ==
    /\ pc = "idle"
    /\ \E prices \in PriceInputs, method \in Methods :
          /\ call' = [fn |-> "calculate_returns", prices |-> prices,
                      method |-> method]
          /\ result' = calculate_returns(as_series(prices).data, method)
          /\ caller' = [prices |-> prices]
    /\ pc' = "done"
    /\ UNCHANGED stock_returns
    /\ UNCHANGED <<conn, stock_data, fetched>>
    /\ UNCHANGED app

\* the call is made: nothing has been checked or computed yet
Call_calculate_portfolio_returns ==
    /\ pc = "idle"
    /\ \E stock_prices \in PortfolioPrices, weights \in WeightVectors :
          /\ call' = [fn |-> "calculate_portfolio_returns",
                      stock_prices |-> stock_prices, weights |-> weights]
          /\ caller' = [stock_prices |-> stock_prices, weights |-> weights]
    /\ pc' = "cpr_check"
    /\ UNCHANGED <<result, stock_returns>>
    /\ UNCHANGED <<conn, stock_data, fetched>>
    /\ UNCHANGED app

\* lines 26-27
CPR_Check ==
    /\ pc = "cpr_check"
    /\ IF CountMismatch(call.stock_prices, call.weights)
       THEN /\ result' = Raised("ValueError",
                                "Number of stocks must match number of weights")
            /\ pc' = "done"
       ELSE /\ pc' = "cpr_returns"
            /\ UNCHANGED result
    /\ UNCHANGED <<call, stock_returns>>
    /\ UNCHANGED <<conn, stock_data, fetched, caller>>
    /\ UNCHANGED app

\* lines 30-33: one iteration of the dict comprehension
CPR_Returns ==
    /\ pc = "cpr_returns"
    /\ Len(stock_returns) < Len(call.stock_prices)
    /\ LET next == call.stock_prices[Len(stock_returns) + 1]
       IN  stock_returns' =
               Append(stock_returns,
                      [ticker |-> next.ticker,
                       returns |-> calculate_returns(next.prices, "log").val.data])
    /\ UNCHANGED <<pc, call, result>>
    /\ UNCHANGED <<conn, stock_data, fetched, caller>>
    /\ UNCHANGED app

\* lines 36-43
CPR_Dot ==
    /\ pc = "cpr_returns"
    /\ Len(stock_returns) = Len(call.stock_prices)
    /\ LET returns_matrix ==
               column_stack([j \in DOMAIN stock_returns |-> stock_returns[j].returns])
       IN  result' = dot(returns_matrix, call.weights)
    /\ pc' = "done"
    /\ UNCHANGED <<call, stock_returns>>
    /\ UNCHANGED <<conn, stock_data, fetched, caller>>
    /\ UNCHANGED app

Call_portfolio_var ==
    /\ pc = "idle"
    /\ \E returns \in ReturnMatrices, c \in PortfolioConfidenceLevels,
          v \in PortfolioInvestments, method \in PortfolioMethods :
          \E weights \in PortfolioVarWeights(Len(returns[1])) :
              /\ call' = [fn |-> "portfolio_var", returns_matrix |-> returns,
                          weights |-> weights, confidence_level |-> c,
                          investment_value |-> v, method |-> method]
              /\ result' = portfolio_var(returns, weights, c, v, method)
              /\ caller' = [returns_matrix |-> returns, weights |-> weights]
    /\ pc' = "done"
    /\ UNCHANGED stock_returns
    /\ UNCHANGED <<conn, stock_data, fetched>>
    /\ UNCHANGED app

Call_calculate_cumulative_yield ==
    /\ pc = "idle"
    /\ \E prices \in YieldInputs, method \in YieldMethods :
          /\ call' = [fn |-> "calculate_cumulative_yield", prices |-> prices,
                      method |-> method]
          /\ result' = calculate_cumulative_yield(prices, method)
          /\ caller' = [prices |-> prices]
    /\ pc' = "done"
    /\ UNCHANGED stock_returns
    /\ UNCHANGED <<conn, stock_data, fetched>>
    /\ UNCHANGED app

Call_forward_pe_ratio ==
    /\ pc = "idle"
    /\ \E args \in ForwardPeInputs :
          /\ call' = [fn |-> "forward_pe_ratio", current_price |-> args[1],
                      forward_eps |-> args[2]]
          /\ result' = forward_pe_ratio(args[1], args[2])
    /\ pc' = "done"
    /\ UNCHANGED stock_returns
    /\ UNCHANGED <<conn, stock_data, fetched, caller>>
    /\ UNCHANGED app

Call_historic_pe_ratio ==
    /\ pc = "idle"
    /\ \E prices \in PriceObservations, financials \in Financials :
          /\ call' = [fn |-> "historic_pe_ratio", prices |-> prices,
                      financials |-> financials]
          /\ result' = historic_pe_ratio(prices, financials)
          /\ caller' = historic_pe_ratio_leaves(prices, financials)
    /\ pc' = "done"
    /\ UNCHANGED stock_returns
    /\ UNCHANGED <<conn, stock_data, fetched>>
    /\ UNCHANGED app

Call_exponential_weighted_moving_average ==
    /\ pc = "idle"
    /\ \E series \in PriceSeries, window \in Windows, alpha \in Alphas :
          /\ call' = [fn |-> "exponential_weighted_moving_average",
                      series |-> series, window |-> window, alpha |-> alpha]
          /\ result' = exponential_weighted_moving_average(series, window, alpha)
    /\ pc' = "done"
    /\ UNCHANGED <<stock_returns, conn, stock_data, fetched, caller>>
    /\ UNCHANGED app

\* fetch_stock_data, once the supplier has delivered the prices `close`
\* (data.py 323-335)
Fetch_Indicators ==
    /\ pc = "idle"
    /\ \E close \in PriceSeries :
          /\ call' = [fn |-> "fetch_stock_data", close |-> close]
          /\ result' = Returned(Indicators(close))
    /\ pc' = "done"
    /\ UNCHANGED <<stock_returns, conn, stock_data, fetched, caller>>
    /\ UNCHANGED app

\* The terminal application.  It starts: lines 184-189
StockAnalysisApp_init ==
    /\ pc = "idle"
    /\ ~ app.started
    /\ app' = Started
    /\ conn' = create_db(conn).conn
    /\ UNCHANGED <<pc, call, result, stock_returns, stock_data, fetched, caller>>

\* the user edits the two inputs
Tui_Type ==
    /\ app.started
    /\ \E ticker \in TickerTexts, days \in DaysTexts :
          app' = [app EXCEPT !.ticker_input = ticker, !.days_input = days]
    /\ pc' = "idle"
    /\ call' = [fn |-> "none"]
    /\ result' = NoResult
    /\ UNCHANGED <<stock_returns, conn, stock_data, fetched, caller>>

\* fetch_stock_data runs, started by `via`
Tui_fetch_stock_data(via) ==
    /\ \E offsets \in SupplierOffsets :
          LET after == tui_fetch_stock_data(app, conn, offsets)
              calls == IF after.outcome.supplier_called THEN fetched + 1 ELSE fetched
          IN  /\ calls <= MaxFetch
              /\ call' = [fn |-> "StockAnalysisApp.fetch_stock_data", via |-> via,
                          ticker |-> app.ticker_input, days |-> app.days_input,
                          conn |-> conn, app |-> app]
              /\ result' = Returned(after.outcome)
              /\ app' = after.app
              /\ conn' = after.conn
              /\ fetched' = calls
    /\ pc' = "done"
    /\ UNCHANGED <<stock_returns, stock_data, caller>>

\* lines 228-231: the Fetch Data button
Tui_Press_fetch_button ==
    /\ app.started
    /\ Tui_fetch_stock_data("fetch-button")

\* lines 235-238: the refresh key
Tui_action_refresh ==
    /\ app.current_ticker # NoTicker
    /\ Tui_fetch_stock_data("refresh")

\* lines 232-233: the Clear button
Tui_Press_clear_button ==
    /\ app.started
    /\ call' = [fn |-> "StockAnalysisApp.clear_data"]
    /\ result' = Returned(Outcome("Data cleared", "information", FALSE, FALSE, FALSE))
    /\ app' = clear_data(app)
    /\ pc' = "done"
    /\ UNCHANGED <<stock_returns, conn, stock_data, fetched, caller>>

\* "Calculate Portfolio VaR" is pressed on the Streamlit page
Page_Calculate_Portfolio_VaR ==
    /\ pc = "idle"
    /\ \E tickers \in PageTickers, weights \in PageWeights :
          /\ Len(tickers) = Len(weights)
          /\ \E failing \in 0..Len(tickers) :
                LET shown == calculate_portfolio_var_pressed(tickers, weights, failing)
                IN  /\ call' = [fn |-> "Calculate Portfolio VaR", tickers |-> tickers,
                                weights |-> weights]
                    /\ result' = Returned(shown)
                    /\ fetched' = shown.fetches
    /\ pc' = "done"
    /\ UNCHANGED <<stock_returns, conn, stock_data, caller, app>>

\* a form is posted to /var-analysis/single
Post_var_analysis_single ==
    /\ pc = "idle"
    /\ \E form \in Forms :
          /\ call' = [fn |-> "var_analysis_single", form |-> form]
          /\ result' = Returned(var_analysis_single(form))
    /\ pc' = "done"
    /\ UNCHANGED <<stock_returns, conn, stock_data, fetched, caller, app>>

\* The endpoint, step by step.  The request arrives:
Call_portfolio_var_simulation ==
    /\ pc = "idle"
    /\ \E request \in Requests :
          call' = [fn |-> "portfolio_var_simulation", request |-> request]
    /\ pc' = "pvs_validate"
    /\ UNCHANGED <<result, stock_returns, conn, stock_data, fetched, caller>>
    /\ UNCHANGED app

\* lines 60-61
PVS_Validate ==
    /\ pc = "pvs_validate"
    /\ IF WeightsSumInvalid(call.request.weights)
       THEN /\ result' = Raised("ValueError", "Portfolio weights must sum to 1")
            /\ pc' = "done"
       ELSE /\ pc' = "pvs_fetch"
            /\ UNCHANGED result
    /\ UNCHANGED <<call, stock_returns, conn, stock_data, fetched, caller>>
    /\ UNCHANGED app

\* lines 65-67, one iteration: fetch_stock_data returns a frame with some
\* Close column for the ticker
PVS_Fetch ==
    /\ pc = "pvs_fetch"
    /\ fetched < Len(call.request.tickers)
    /\ \E close \in FetchedCloses :
          stock_data' = DictSet(stock_data, call.request.tickers[fetched + 1], close)
    /\ fetched' = fetched + 1
    /\ UNCHANGED <<pc, call, result, stock_returns, conn, caller>>
    /\ UNCHANGED app

\* lines 65-66, one iteration: fetch_stock_data raises (no data, or the
\* supplier failed)
PVS_FetchFails ==
    /\ pc = "pvs_fetch"
    /\ fetched < Len(call.request.tickers)
    /\ fetched' = fetched + 1
    /\ result' = Raised("ValueError", "Error fetching data for ticker")
    /\ pc' = "done"
    /\ UNCHANGED <<call, stock_returns, conn, stock_data, caller>>
    /\ UNCHANGED app

\* lines 69-87
PVS_Respond ==
    /\ pc = "pvs_fetch"
    /\ fetched = Len(call.request.tickers)
    /\ result' = RiskMetricsResponse(call.request, stock_data)
    /\ pc' = "done"
    /\ UNCHANGED <<call, stock_returns, conn, stock_data, fetched, caller>>
    /\ UNCHANGED app

\* A call on the connection.  `call.conn` is the connection as it was handed
\* to the call.  The tables outlive the call: once the caller has taken the
\* outcome (Db_Return) the next call starts from what the last one left.
DatabaseFunctions == {"create_db", "insert_to_stock_data", "insert_to_financial_data"}

Db_Return ==
    /\ pc = "done"
    /\ call.fn \in DatabaseFunctions
    /\ pc' = "idle"
    /\ call' = [fn |-> "none"]
    /\ result' = NoResult
    /\ UNCHANGED <<conn, stock_returns, stock_data, fetched, caller>>
    /\ UNCHANGED app

Call_create_db ==
    /\ pc = "idle"
    /\ call' = [fn |-> "create_db", conn |-> conn]
    /\ conn' = create_db(conn).conn
    /\ result' = create_db(conn).result
    /\ pc' = "done"
    /\ UNCHANGED <<stock_returns, stock_data, fetched, caller>>
    /\ UNCHANGED app

Call_insert_to_stock_data ==
    /\ pc = "idle"
    /\ \E df \in StockFrames :
          /\ call' = [fn |-> "insert_to_stock_data", df |-> df, conn |-> conn]
          /\ conn' = insert_to_stock_data(df, conn).conn
          /\ result' = insert_to_stock_data(df, conn).result
    /\ pc' = "done"
    /\ UNCHANGED <<stock_returns, stock_data, fetched, caller>>
    /\ UNCHANGED app

Call_insert_to_financial_data ==
    /\ pc = "idle"
    /\ \E df \in FinancialFrames, ticker \in TickerSet :
          /\ call' = [fn |-> "insert_to_financial_data", df |-> df,
                      ticker |-> ticker, conn |-> conn]
          /\ conn' = insert_to_financial_data(df, ticker, conn).conn
          /\ result' = insert_to_financial_data(df, ticker, conn).result
    /\ pc' = "done"
    /\ UNCHANGED <<stock_returns, stock_data, fetched, caller>>
    /\ UNCHANGED app

Next ==
    \/ Call_historical_var
    \/ Call_parametric_var
    \/ Call_calculate_returns
    \/ Call_calculate_portfolio_returns
    \/ CPR_Check
    \/ CPR_Returns
    \/ CPR_Dot
    \/ Call_portfolio_var
    \/ Call_calculate_cumulative_yield
    \/ Call_forward_pe_ratio

Spec == Init /\ [][Next]_vars

\* every function of the metrics module
MetricsNext ==
    \/ Next
    \/ Call_historic_pe_ratio

MetricsSpec == Init /\ [][MetricsNext]_vars

\* the Streamlit portfolio page
PageNext == Page_Calculate_Portfolio_VaR

PageSpec == Init /\ [][PageNext]_vars

\* the Flask page of the single-asset VaR
FlaskNext == Post_var_analysis_single

FlaskSpec == Init /\ [][FlaskNext]_vars

\* the terminal application: any sequence of events
TuiNext ==
    \/ StockAnalysisApp_init
    \/ Tui_Type
    \/ Tui_Press_fetch_button
    \/ Tui_action_refresh
    \/ Tui_Press_clear_button

TuiSpec == Init /\ [][TuiNext]_vars

\* the moving averages
IndicatorNext ==
    \/ Call_exponential_weighted_moving_average
    \/ Fetch_Indicators

IndicatorSpec == Init /\ [][IndicatorNext]_vars

\* the valuation helper on its own
ValuationNext == Call_historic_pe_ratio

ValuationSpec == Init /\ [][ValuationNext]_vars

\* the portfolio VaR endpoint: one request
EndpointNext ==
    \/ Call_portfolio_var_simulation
    \/ PVS_Validate
    \/ PVS_Fetch
    \/ PVS_FetchFails
    \/ PVS_Respond

EndpointSpec == Init /\ [][EndpointNext]_vars

\* the daily prices in the database: any sequence of calls on one connection
StockDataNext ==
    \/ Call_create_db
    \/ Call_insert_to_stock_data
    \/ Db_Return

StockDataSpec == Init /\ [][StockDataNext]_vars

\* the yearly statements in the database
FinancialDataNext ==
    \/ Call_create_db
    \/ Call_insert_to_financial_data
    \/ Db_Return

FinancialDataSpec == Init /\ [][FinancialDataNext]_vars

(***************************************************************************)
(* The claims.                                                             *)
(***************************************************************************)
Done(fn) == pc = "done" /\ call.fn = fn

\* a completed call of one of the two VaR estimators that returned a value
VarReturned(fn) == Done(fn) /\ IsValue(result)

\* the value the same estimator returns for the same sample and investment
\* value at another confidence level
VarAt(fn, c) ==
    IF fn = "historical_var"
    THEN historical_var(call.returns, c, call.investment_value).val
    ELSE parametric_var(call.returns, c, call.investment_value).val

\* the VaR just returned is not above the VaR at any higher confidence level
NotAboveHigherLevels(fn) ==
    \A c2 \in ValidConfidenceLevels :
        call.confidence_level <= c2 => FLe(result.val, VarAt(fn, c2))

\* C1 as stated: for every non-empty sample, historical_var is monotonically
\* non-decreasing in confidence_level.
C1_HistoricalMonotoneEverySample ==
    VarReturned("historical_var") => NotAboveHigherLevels("historical_var")

\* C1 amended: historical_var is monotonically non-decreasing in
\* confidence_level from every level c1 at which the (1 - c1)-quantile of the
\* sample is not positive.
C1_HistoricalMonotoneOnLosses ==
    (/\ VarReturned("historical_var")
     /\ HistoricalQuantile(call.returns, call.confidence_level) <= 0)
    => NotAboveHigherLevels("historical_var")

\* a call whose quantile is a loss and whose VaR is strictly below the VaR at
\* a higher confidence level
C1_Witness ==
    /\ VarReturned("historical_var")
    /\ HistoricalQuantile(call.returns, call.confidence_level) < 0
    /\ \E c2 \in ValidConfidenceLevels :
          /\ call.confidence_level < c2
          /\ result.val.v < VarAt("historical_var", c2).v

\* C2 as stated: for every sample of at least two observations,
\* parametric_var is monotonically non-decreasing in confidence_level.
C2_ParametricMonotoneEverySample ==
    (VarReturned("parametric_var") /\ Len(call.returns) >= 2)
    => NotAboveHigherLevels("parametric_var")

\* C2 amended: for a sample of at least two observations, parametric_var is
\* monotonically non-decreasing in confidence_level from every level c1 at
\* which mu + z(1 - c1) * sigma is not positive.
C2_ParametricMonotoneOnLosses ==
    (/\ VarReturned("parametric_var")
     /\ Len(call.returns) >= 2
     /\ FLe(ParametricQuantile(call.returns, call.confidence_level), Num(0)))
    => NotAboveHigherLevels("parametric_var")

C2_Witness ==
    /\ VarReturned("parametric_var")
    /\ Len(call.returns) >= 2
    /\ FLe(ParametricQuantile(call.returns, call.confidence_level), Num(-1))
    /\ \E c2 \in ValidConfidenceLevels :
          /\ call.confidence_level < c2
          /\ result.val.v < VarAt("parametric_var", c2).v

\* the j-th smallest element of a non-empty sample (j in 1..Len), stated
\* without sorting: fewer than j elements lie below it, at least j at or
\* below it
OrderStatistic(sample, j) ==
    CHOOSE x \in {sample[i] : i \in DOMAIN sample} :
        /\ Cardinality({i \in DOMAIN sample : sample[i] < x}) < j
        /\ Cardinality({i \in DOMAIN sample : sample[i] <= x}) >= j

\* 100 times the (1 - c)-quantile by linear interpolation at the fractional
\* rank (1 - c) * (n - 1)
InterpolatedQuantile(sample, c) ==
    LET rank == (100 - c) * (Len(sample) - 1)
        below == rank \div 100
        frac == rank % 100
    IN  IF frac = 0 THEN 100 * OrderStatistic(sample, below + 1)
        ELSE (100 - frac) * OrderStatistic(sample, below + 1)
             + frac * OrderStatistic(sample, below + 2)

\* C3: historical_var(returns, c, v) = v * |q|, q the (1 - c)-quantile of the
\* sample by linear interpolation between the neighbouring order statistics.
C3_HistoricalIsInterpolatedQuantile ==
    VarReturned("historical_var")
    => result.val = Num(call.investment_value
                        * Abs(InterpolatedQuantile(call.returns, call.confidence_level)))

\* a call whose quantile falls strictly between two different order
\* statistics
C3_Witness ==
    /\ VarReturned("historical_var")
    /\ call.investment_value > 0
    /\ LET rank == (100 - call.confidence_level) * (Len(call.returns) - 1)
       IN  /\ rank % 100 # 0
           /\ OrderStatistic(call.returns, rank \div 100 + 1)
                # OrderStatistic(call.returns, rank \div 100 + 2)
    /\ result.val.v > 0

\* C4 as stated: for every non-empty sample and every confidence_level in
\* (0,1), historical_var and parametric_var return a value >= 0.
C4_VarNonNegative ==
    (/\ pc = "done"
     /\ call.fn \in {"historical_var", "parametric_var"}
     /\ call.confidence_level \in ValidConfidenceLevels)
    => (IsValue(result) /\ FGe0(result.val))

\* C5: for a confidence_level outside (0,1), the bounds 0 and 1 included,
\* both estimators raise ValueError and return no value.
C5_ConfidenceOutsideRaises ==
    (/\ pc = "done"
     /\ call.fn \in {"historical_var", "parametric_var"}
     /\ ~ (0 < call.confidence_level /\ call.confidence_level < 100))
    => (/\ IsError(result)
        /\ result.exc = "ValueError"
        /\ ~ IsValue(result))

\* a call at the boundary value 1 that raised
C5_Witness ==
    /\ Done("parametric_var")
    /\ call.confidence_level = 100
    /\ IsError(result)

\* the weighted sum of the assets' log returns over the period ending at
\* time step t (t >= 2)
WeightedReturnAt(stock_prices, weights, t) ==
    DotRow([j \in DOMAIN stock_prices |->
               LogRatio(stock_prices[j].prices[t], stock_prices[j].prices[t - 1])],
           weights)

\* C6 as stated: for k assets with price series of equal length n and k
\* weights, calculate_portfolio_returns returns n - 1 elements, none missing,
\* each the weighted sum of the assets' returns at that time step (checked
\* where there is a return at all, n >= 2).
C6_PortfolioReturnsDropMissingRow ==
    (/\ Done("calculate_portfolio_returns")
     /\ IsValue(result)
     /\ Len(call.stock_prices[1].prices) >= 2)
    => LET n == Len(call.stock_prices[1].prices)
       IN  /\ Len(result.val.data) = n - 1
           /\ \A i \in DOMAIN result.val.data :
                 /\ ~ IsNaN(result.val.data[i])
                 /\ result.val.data[i]
                      = WeightedReturnAt(call.stock_prices, call.weights, i + 1)

\* C7 as stated: portfolio_var raises ValueError whenever method is neither
\* 'historical' nor 'parametric' and computes no VaR for it.
C7_UnknownMethodRaises ==
    (Done("portfolio_var") /\ call.method \notin {"historical", "parametric"})
    => (/\ IsError(result)
        /\ result.exc = "ValueError"
        /\ result.msg = "method must be either 'historical' or 'parametric'")

\* C8 as stated: for every non-empty price series and both methods, the
\* first element of calculate_cumulative_yield is exactly 0, not missing.
C8_FirstYieldIsZero ==
    (/\ Done("calculate_cumulative_yield")
     /\ call.prices.kind = "series"
     /\ call.method \in {"simple", "log"})
    => (IsValue(result) /\ result.val.data[1] = Num(0))

\* what C9 states for one price and one EPS figure
ForwardPeOf(price, eps) == IF eps <= 0 THEN NaN ELSE FDiv(Num(price), Num(eps))

\* C9 as stated: forward_pe_ratio is NaN whenever forward_eps <= 0 and
\* current_price / forward_eps otherwise, for scalars and for each element of
\* series inputs.
C9_ForwardPeMissingForNonPositiveEps ==
    Done("forward_pe_ratio")
    => IF result.val.kind = "scalar"
       THEN result.val.x = ForwardPeOf(call.current_price.x, call.forward_eps.x)
       ELSE \A i \in DOMAIN result.val.data :
               result.val.data[i] = ForwardPeOf(ElementOf(call.current_price, i),
                                                ElementOf(call.forward_eps, i))

\* C10: when the number of assets differs from the number of weights,
\* calculate_portfolio_returns raises ValueError ("Number of stocks must match
\* number of weights"), and no asset's returns are computed at any point of
\* the call.
C10_CountMismatchRaisesFirst ==
    (/\ call.fn = "calculate_portfolio_returns"
     /\ Len(call.stock_prices) # Len(call.weights))
    => (/\ stock_returns = <<>>
        /\ pc \in {"cpr_check", "done"}
        /\ pc = "done"
           => result = Raised("ValueError",
                              "Number of stocks must match number of weights"))

\* a call with fewer assets than weights that has raised
C10_Witness ==
    /\ Done("calculate_portfolio_returns")
    /\ Len(call.stock_prices) < Len(call.weights)
    /\ IsError(result)
    /\ stock_returns = <<>>

\* C11: for every price series of positive prices, given as a list, an array
\* or a Series, and each method in {log, simple}, calculate_returns returns a
\* series of the length of its input whose first element is missing (not
\* zero) and whose other elements are all defined: exactly one is missing.
C11_ReturnsKeepLengthFirstMissing ==
    (Done("calculate_returns") /\ call.method \in {"log", "simple"})
    => (/\ IsValue(result)
        /\ result.val.kind = "series"
        /\ Len(result.val.data) = Len(call.prices.data)
        /\ IsNaN(result.val.data[1])
        /\ result.val.data[1] # Num(0)
        /\ \A i \in 2..Len(result.val.data) : IsNum(result.val.data[i])
        /\ Cardinality({i \in DOMAIN result.val.data : IsNaN(result.val.data[i])}) = 1)

\* simple returns of a list of three prices that rise and then fall
C11_Witness ==
    /\ Done("calculate_returns")
    /\ call.method = "simple"
    /\ call.prices.kind = "list"
    /\ Len(call.prices.data) = 3
    /\ IsNaN(result.val.data[1])
    /\ result.val.data[2].v > 0
    /\ result.val.data[3].v < 0

\* the one column of a single-asset returns matrix as a return series, in
\* the unit of the portfolio returns (tenths of the matrix unit)
OwnReturns(returns_matrix) ==
    [i \in DOMAIN returns_matrix |-> returns_matrix[i][1] * FullWeight]

\* the single-asset estimator that the method names
SingleAssetVar(returns, confidence_level, investment_value, method) ==
    IF method = "historical"
    THEN historical_var(returns, confidence_level, investment_value)
    ELSE parametric_var(returns, confidence_level, investment_value)

\* C12: portfolio_var on a returns matrix of one asset column with weights
\* [1.0] yields the VaR that historical_var (method 'historical') or
\* parametric_var (method 'parametric') yields for that asset's own return
\* series with the same confidence_level and investment_value; where the
\* single-asset estimator raises, portfolio_var raises the same error.
C12_SingleAssetPortfolioIsSingleAssetVar ==
    (/\ Done("portfolio_var")
     /\ Len(call.returns_matrix[1]) = 1
     /\ call.weights = <<FullWeight>>
     /\ call.method \in {"historical", "parametric"})
    => LET single == SingleAssetVar(OwnReturns(call.returns_matrix),
                                    call.confidence_level, call.investment_value,
                                    call.method)
       IN  IF IsError(single) THEN result = single
           ELSE IsValue(result) /\ result.val.var = single.val

\* a parametric single-asset call on three returns that vary, with a VaR
\* above zero
C12_Witness ==
    /\ Done("portfolio_var")
    /\ Len(call.returns_matrix[1]) = 1
    /\ Len(call.returns_matrix) = 3
    /\ call.weights = <<FullWeight>>
    /\ call.method = "parametric"
    /\ IsValue(result)
    /\ IsNum(result.val.var)
    /\ result.val.var.v > 0
    /\ result.val.daily_volatility.v > 0

\* the factors k by which the investment value of a call is scaled
ScaleFactors == 0..(MaxInvest + 1)

\* the value the estimator of the call returns for the same sample and
\* confidence level when the investment value is k times the call's
VarAtScaled(fn, k) ==
    IF fn = "historical_var"
    THEN historical_var(call.returns, call.confidence_level, k * call.investment_value).val
    ELSE parametric_var(call.returns, call.confidence_level, k * call.investment_value).val

\* C13: both estimators scale linearly in investment_value: for a fixed
\* sample and confidence level and every factor k >= 0,
\* var(returns, c, k * v) = k * var(returns, c, v), for historical_var and for
\* parametric_var (a missing value stays missing under every factor).
C13_VarScalesLinearly ==
    \A fn \in {"historical_var", "parametric_var"} :
        VarReturned(fn)
        => \A k \in ScaleFactors : VarAtScaled(fn, k) = FMul(Num(k), result.val)

\* a parametric VaR above zero that doubles with the investment value
C13_Witness ==
    /\ VarReturned("parametric_var")
    /\ call.investment_value > 0
    /\ IsNum(result.val)
    /\ result.val.v > 0
    /\ VarAtScaled("parametric_var", 2).v = 2 * result.val.v

\* the annual EPS figures of the call's financials
AnnualEps == yearly_eps(call.financials)

\* the years at or before `year` that have an annual EPS figure
YearsWithEpsUpTo(year) ==
    {y \in DOMAIN AnnualEps : y <= year /\ ~ IsNaN(AnnualEps[y])}

HistoricPeReturned == Done("historic_pe_ratio") /\ IsValue(result)

\* C14: historic_pe_ratio divides each price by the annual EPS of the latest
\* year at or before the price's year that has an EPS figure; a figure of a
\* later year is never used, and a price dated before the first year with a
\* figure gets a missing P/E.
C14_HistoricPeUsesLatestEarlierEps ==
    HistoricPeReturned
    => \A i \in DOMAIN call.prices.rows :
          LET obs == call.prices.rows[i]
              earlier == YearsWithEpsUpTo(obs.year)
          IN  IF earlier = {} THEN IsNaN(result.val.data[i])
              ELSE LET eps == AnnualEps[CHOOSE y \in earlier : \A z \in earlier : z <= y]
                   IN  eps.v # 0 => result.val.data[i] = FDiv(Num(obs.close), eps)

\* a price of a year without a figure, between a year that has one and a
\* later year that has a different one, priced with the earlier figure
C14_Witness ==
    /\ HistoricPeReturned
    /\ \E i \in DOMAIN call.prices.rows :
          LET obs == call.prices.rows[i]
          IN  /\ YearsWithEpsUpTo(obs.year) # {}
              /\ obs.year \notin YearsWithEpsUpTo(obs.year)
              /\ \E later \in DOMAIN AnnualEps :
                    /\ later > obs.year
                    /\ IsNum(AnnualEps[later])
                    /\ IsNum(result.val.data[i])
                    /\ result.val.data[i] # FDiv(Num(obs.close), AnnualEps[later])

\* C15: historic_pe_ratio never returns an infinite value: wherever the EPS
\* that applies to a price is zero or undefined, the P/E is missing (NaN).
C15_HistoricPeNeverInfinite ==
    HistoricPeReturned
    => \A i \in DOMAIN call.prices.rows :
          LET earlier == YearsWithEpsUpTo(call.prices.rows[i].year)
          IN  /\ ~ IsInf(result.val.data[i])
              /\ (\/ earlier = {}
                  \/ AnnualEps[CHOOSE y \in earlier : \A z \in earlier : z <= y].v = 0)
                 => IsNaN(result.val.data[i])

\* a price whose applicable EPS is the zero figure of its own year, missing
\* in the result
C15_Witness ==
    /\ HistoricPeReturned
    /\ \E i \in DOMAIN call.prices.rows :
          /\ call.prices.rows[i].year \in DOMAIN AnnualEps
          /\ AnnualEps[call.prices.rows[i].year] = Num(0)
          /\ call.prices.rows[i].close > 0
          /\ IsNaN(result.val.data[i])

\* the ticker and the dates of the frame given to insert_to_stock_data
DfTicker == call.df.rows[1].Ticker
DfDates == {call.df.rows[i].Date : i \in DOMAIN call.df.rows}

\* a row of that ticker dated between the minimum and the maximum date of the
\* frame
InDfRange(row) ==
    /\ row.Ticker = DfTicker
    /\ \E lo, hi \in DfDates : lo <= row.Date /\ row.Date <= hi

\* C16: after insert_to_stock_data(df, conn) for a single-ticker df (with one
\* row per date, on a database made by create_db), in every state any
\* sequence of calls can reach: the call returns, and the rows stored for
\* that ticker between df's minimum and maximum date are exactly the rows of
\* df, as many as df has; the rows stored in that range before are deleted,
\* not merged.
C16_InsertReplacesDateRange ==
    (/\ Done("insert_to_stock_data")
     /\ call.conn.created
     /\ Cardinality(DfDates) = Len(call.df.rows))
    => (/\ IsValue(result)
        /\ {row \in conn.daily_stock_price : InDfRange(row)} = RowsOf(call.df.rows)
        /\ Cardinality({row \in conn.daily_stock_price : InDfRange(row)})
             = Len(call.df.rows)
        /\ \A row \in call.conn.daily_stock_price :
              (InDfRange(row) /\ row \notin RowsOf(call.df.rows))
              => row \notin conn.daily_stock_price)

\* a re-insert over a stored range: one stored row lies between the frame's
\* dates on a date the frame does not have, another has a date of the frame
\* with another close, and both are gone
C16_Witness ==
    /\ Done("insert_to_stock_data")
    /\ IsValue(result)
    /\ \E old \in call.conn.daily_stock_price :
          InDfRange(old) /\ old.Date \notin DfDates /\ old \notin conn.daily_stock_price
    /\ \E old \in call.conn.daily_stock_price :
          /\ InDfRange(old)
          /\ old.Date \in DfDates
          /\ old \notin RowsOf(call.df.rows)
          /\ old \notin conn.daily_stock_price
    /\ Cardinality({row \in conn.daily_stock_price : InDfRange(row)})
         < Cardinality({row \in call.conn.daily_stock_price : InDfRange(row)})

\* C17: insert_to_stock_data(df, conn) leaves unchanged every stored row of
\* another ticker and every stored row of the same ticker dated outside
\* [min date of df, max date of df], whether the call returns or raises.
C17_InsertKeepsOtherRows ==
    Done("insert_to_stock_data")
    => {row \in conn.daily_stock_price : ~ InDfRange(row)}
         = {row \in call.conn.daily_stock_price : ~ InDfRange(row)}

\* an insert that deleted a stored row while a row of the other ticker on
\* the same date and a row of the same ticker outside the range stayed
C17_Witness ==
    /\ Done("insert_to_stock_data")
    /\ IsValue(result)
    /\ \E gone \in call.conn.daily_stock_price :
          /\ gone \notin conn.daily_stock_price
          /\ \E other \in conn.daily_stock_price :
                other.Ticker # DfTicker /\ other.Date = gone.Date
    /\ \E outside \in conn.daily_stock_price :
          /\ outside.Ticker = DfTicker
          /\ \A d \in DfDates : outside.Date < d

\* C18 as stated: after insert_to_financial_data(df, ticker, conn) on a
\* database made by create_db, financial_data holds for that ticker exactly
\* the rows of df (one row per year, any number of years), and the rows of
\* the other tickers are unchanged.
C18_FinancialRowsReplaced ==
    (Done("insert_to_financial_data") /\ call.conn.created)
    => (/\ IsValue(result)
        /\ {row \in conn.financial_data : row.Ticker = call.ticker}
             = {[Ticker |-> call.ticker, Year |-> call.df.rows[i].Year,
                 BasicEPS |-> call.df.rows[i].BasicEPS] : i \in DOMAIN call.df.rows}
        /\ {row \in conn.financial_data : row.Ticker # call.ticker}
             = {row \in call.conn.financial_data : row.Ticker # call.ticker})

\* a request of the endpoint is being handled or has been answered
InEndpoint == call.fn = "portfolio_var_simulation"

\* C19: the endpoint rejects every request whose weights sum lies outside
\* [0.99, 1.01] with an error: it never goes on with the weights as given or
\* with other weights, returns no value, and has fetched no ticker's prices
\* in any state of handling the request.
C19_WeightsSumRejectedBeforeFetch ==
    (/\ InEndpoint
     /\ (Sum(call.request.weights) < 99 \/ Sum(call.request.weights) > 101))
    => (/\ pc \in {"pvs_validate", "done"}
        /\ fetched = 0
        /\ stock_data = <<>>
        /\ pc = "done" => result = Raised("ValueError", "Portfolio weights must sum to 1"))

\* a request of two tickers whose weights sum to 0.98, rejected
C19_Witness ==
    /\ InEndpoint
    /\ pc = "done"
    /\ Len(call.request.tickers) = 2
    /\ Sum(call.request.weights) = 98
    /\ IsError(result)
    /\ fetched = 0

\* C20 as stated: a request whose number of tickers differs from its number
\* of weights is rejected with an error, and no ticker's price data has been
\* fetched when the error is raised (nor at any earlier moment).
C20_CountMismatchBeforeFetch ==
    (/\ InEndpoint
     /\ Len(call.request.tickers) # Len(call.request.weights))
    => (/\ fetched = 0
        /\ stock_data = <<>>
        /\ pc = "done" => (IsError(result) /\ result.exc = "ValueError"))

\* the tickers of the request are pairwise different
DistinctTickers ==
    \A i, j \in DOMAIN call.request.tickers :
        call.request.tickers[i] = call.request.tickers[j] => i = j

\* every ticker of the request was fetched, and the fetched Close series
\* have the common length n
FetchedCommonLength(n) ==
    /\ fetched = Len(call.request.tickers)
    /\ Len(stock_data) = Len(call.request.tickers)
    /\ \A j \in DOMAIN stock_data : Len(stock_data[j].prices) = n

\* C21 as stated: a request of k >= 1 distinct tickers, k weights that sum
\* to 1, a valid method and confidence level, for which the fetched Close
\* series have a common length n >= 3, is answered without error: the
\* response holds a defined var >= 0 and maps each ticker to its weight.
C21_EndpointCompletes ==
    (/\ InEndpoint
     /\ pc = "done"
     /\ DistinctTickers
     /\ Len(call.request.weights) = Len(call.request.tickers)
     /\ Sum(call.request.weights) = 100
     /\ call.request.method \in {"historical", "parametric"}
     /\ ~ ConfidenceOutOfRange(call.request.confidence_level)
     /\ \E n \in 3..(MaxLen + 1) : FetchedCommonLength(n))
    => (/\ IsValue(result)
        /\ IsNum(result.val.risk_metrics.var)
        /\ result.val.risk_metrics.var.v >= 0
        /\ Len(result.val.portfolio_composition) = Len(call.request.tickers)
        /\ \A j \in DOMAIN call.request.tickers :
              result.val.portfolio_composition[j]
                  = [ticker |-> call.request.tickers[j],
                     prices |-> call.request.weights[j]])

\* C22 as stated: parametric_var on a return series of fewer than two
\* observations raises an error and returns no value, NaN included.
C22_TooFewObservationsRaise ==
    (/\ pc = "done"
     /\ call.fn = "parametric_var"
     /\ Len(call.returns) < 2)
    => (IsError(result) /\ ~ IsValue(result))

\* the metrics functions that take containers
ContainerFunctions ==
    {"calculate_returns", "historical_var", "parametric_var",
     "calculate_portfolio_returns", "portfolio_var",
     "calculate_cumulative_yield", "historic_pe_ratio"}

\* the containers of the call in progress, as the caller handed them over
Handed ==
    CASE call.fn \in {"historical_var", "parametric_var"} ->
             [returns |-> call.returns]
      [] call.fn \in {"calculate_returns", "calculate_cumulative_yield"} ->
             [prices |-> call.prices]
      [] call.fn = "calculate_portfolio_returns" ->
             [stock_prices |-> call.stock_prices, weights |-> call.weights]
      [] call.fn = "portfolio_var" ->
             [returns_matrix |-> call.returns_matrix, weights |-> call.weights]
      [] call.fn = "historic_pe_ratio" ->
             [prices |-> Object(call.prices), financials |-> Object(call.financials)]

\* C23: during and after every call of a metrics function the caller's
\* price, return, weight and financials containers hold what they held
\* when the call was made, and a second call on them gives the first
\* call's result.
C23_InputsNotMutated ==
    call.fn \in ContainerFunctions
    => (/\ caller = Handed
        /\ (pc = "done" /\ call.fn = "calculate_returns")
              => calculate_returns(as_series(caller.prices).data, call.method) = result
        /\ (pc = "done" /\ call.fn = "historic_pe_ratio")
              => historic_pe_ratio(caller.prices.frame, caller.financials.frame) = result)

\* historic_pe_ratio has returned the ratios for quarterly statements, whose
\* Date column it converts and to which it adds a Year column
C23_Witness ==
    /\ pc = "done"
    /\ call.fn = "historic_pe_ratio"
    /\ call.financials.form = "Date"
    /\ Len(call.financials.rows) = 2
    /\ IsValue(result)
    /\ ~ caller.financials.year_column

\* C24: for every method string other than 'log' and 'simple', and every
\* price input, calculate_returns raises ValueError("method must be either
\* 'log' or 'simple'") and returns no series.
C24_UnknownReturnMethodRaises ==
    (/\ pc = "done"
     /\ call.fn = "calculate_returns"
     /\ call.method \notin {"log", "simple"})
    => (/\ result = Raised("ValueError", "method must be either 'log' or 'simple'")
        /\ ~ IsValue(result))

\* a list of three prices with the method spelled 'Log'
C24_Witness ==
    /\ pc = "done"
    /\ call.fn = "calculate_returns"
    /\ call.method = "Log"
    /\ call.prices.kind = "list"
    /\ Len(call.prices.data) = 3
    /\ IsError(result)

\* the average e of the observations x follows the recurrence with alpha:
\* e has the length of x, its first element is x's, and every later element
\* is alpha * x[i] + (1 - alpha) * e[i-1], written over the denominator
\* alpha.den * e[i-1].den; every element is a defined number
FollowsRecurrence(e, x, alpha) ==
    /\ Len(e) = Len(x)
    /\ e[1] = Ratio(x[1], 1)
    /\ \A i \in 2..Len(x) :
          /\ e[i].den = alpha.den * e[i - 1].den
          /\ e[i].num = alpha.num * x[i] * e[i - 1].den
                           + (alpha.den - alpha.num) * e[i - 1].num
    /\ \A i \in DOMAIN e : e[i].den > 0

\* C25: with alpha omitted the moving average uses alpha = 2/(window+1) and
\* follows the recurrence, with the input's length and every element
\* defined; the ema50 and ema200 columns of fetch_stock_data follow it for
\* the windows 50 and 200.
C25_EwmaFollowsRecurrence ==
    /\ (/\ pc = "done"
        /\ call.fn = "exponential_weighted_moving_average"
        /\ call.window >= 1
        /\ ~ call.alpha.given)
       => (/\ IsValue(result)
           /\ FollowsRecurrence(result.val.data, call.series,
                                 Ratio(2, call.window + 1)))
    /\ (pc = "done" /\ call.fn = "fetch_stock_data")
       => (/\ IsValue(result)
           /\ FollowsRecurrence(result.val.ema50, call.close, Ratio(2, 50 + 1))
           /\ FollowsRecurrence(result.val.ema200, call.close, Ratio(2, 200 + 1)))

\* the indicator columns of three different closing prices
C25_Witness ==
    /\ pc = "done"
    /\ call.fn = "fetch_stock_data"
    /\ call.close = <<1, 3, 2>>
    /\ result.val.ema50[3].num # result.val.ema50[3].den * 2
    /\ Len(result.val.ema200) = 3

\* C26 as stated: when the append of insert_to_stock_data or
\* insert_to_financial_data fails on a key conflict, the tables are as they
\* were before the call.
C26_FailedAppendKeepsTable ==
    (/\ pc = "done"
     /\ call.fn \in {"insert_to_stock_data", "insert_to_financial_data"}
     /\ IsError(result)
     /\ result.exc = "IntegrityError")
    => conn = call.conn

\* the handler fetch_stock_data of the terminal application has run
TuiFetched == pc = "done" /\ call.fn = "StockAnalysisApp.fetch_stock_data"

\* C27 as stated: when a fetch for a ticker and a day count has succeeded
\* with prices from the supplier, stored by insert_to_stock_data, the next
\* event, if it is a fetch (button or refresh) for the same ticker and day
\* count, calls the supplier no more and writes nothing to the database.
C27_RepeatedFetchServedFromDb ==
    [][(/\ TuiFetched
        /\ result.val.severity = "information"
        /\ result.val.supplier_called
        /\ result.val.wrote
        /\ pc' = "done"
        /\ call'.fn = "StockAnalysisApp.fetch_stock_data"
        /\ call'.ticker = call.ticker
        /\ call'.days = call.days)
       => (/\ fetched' = fetched
           /\ conn' = conn
           /\ ~ result'.val.supplier_called
           /\ ~ result'.val.wrote)]_vars

\* C28 as stated: with a ticker entered, fetch_stock_data rejects every
\* integer day count outside 1..50 with 'Days must be between 1 and 50',
\* queries no database, calls no supplier and leaves current_df,
\* current_ticker and the database as they were.
C28_DaysOutsideRangeRejected ==
    (/\ TuiFetched
     /\ strip_upper(call.ticker) # ""
     /\ call.days \in DOMAIN DecimalValue
     /\ ~ (1 <= DecimalValue[call.days] /\ DecimalValue[call.days] <= 50))
    => (/\ result.val.notification = "Days must be between 1 and 50"
        /\ ~ result.val.queried
        /\ ~ result.val.supplier_called
        /\ app.current_df = call.app.current_df
        /\ app.current_ticker = call.app.current_ticker
        /\ conn = call.conn)

\* C29 as stated: the portfolio page goes on to fetch and compute only when
\* the weights sum to 1 within the tolerance of 0.01, and a filled-in form
\* whose weights sum to less than 1 by more than the tolerance is rejected
\* with 'Weights must sum to 1', as one whose sum is too large is.
C29_PageRejectsWeightsBothWays ==
    (pc = "done" /\ call.fn = "Calculate Portfolio VaR")
    => (/\ result.val.proceeded => Abs(Sum(call.weights) - 1000) <= 10
        /\ (/\ ~ NotAllFilled(call.tickers, call.weights)
            /\ Abs(Sum(call.weights) - 1000) > 10)
           => (/\ result.val.message = "Weights must sum to 1"
               /\ ~ result.val.proceeded
               /\ fetched = 0))

\* C30 as stated: the template's historical_var is the historical
\* estimator's value and its parametric_var the parametric estimator's value
\* for the submitted returns, confidence level and investment value.
C30_TemplateValuesNamedRight ==
    (/\ pc = "done"
     /\ call.fn = "var_analysis_single"
     /\ "error" \notin DOMAIN result.val.context)
    => LET returns == ParsedReturns(call.form.returns)
           confidence_level == FloatValue[call.form.confidence_level]
           investment_value == FloatValue[call.form.investment_value]
       IN  /\ result.val.context.historical_var
                 = historical_var(returns, confidence_level, investment_value).val
           /\ result.val.context.parametric_var
                 = parametric_var(returns, confidence_level, investment_value).val

====
